---- MODULE Spec2Model ----
(***************************************************************************)
(* A model of the Jetxl workbook serialization engine: the style registry  *)
(* (styles.rs), the multi-sheet package writer (writer.rs), the auxiliary  *)
(* part generators (xml.rs) and the validator / atomic writer              *)
(* (validation.rs).                                                        *)
(***************************************************************************)
EXTENDS Integers, Sequences, FiniteSets, TLC

\* ------------------------------------------------------------------------
\* Bounds of the model
\* ------------------------------------------------------------------------
MaxSheets == 3
MaxCharts == 2
MaxTables == 1
MaxImages == 2

MaxMediaSheets == 2
MaxRules == 3
MaxDxfSheets == 2
MaxParSheets == 3
MaxThreads == 2

MaxWrites == 3

MaxMerges == 3

MaxFormats == 3

MaxLinks == 2

MaxRegistrations == 3

MaxDataRows == 2

MaxStartRow == 2

\* Sheets of a call whose tables are named, and named tables per sheet.
MaxTableSheets == 2

MaxNamedTables == 2

\* Sheets of a workbook whose relationship ids are compared.
MaxBookSheets == 101

\* Tables of the sheet written through a single-sheet entry point.
MaxEntryTables == 2

\* Option<T>: None is the empty tuple, Some(x) the one-element tuple.
NoneOpt == <<>>

Some(x) == <<x>>

IsSome(o) == o # <<>>

Unwrap(o) == o[1]

Range(f) == {f[i] : i \in DOMAIN f}

SeqsUpTo(S, n) == UNION {[1..k -> S] : k \in 0..n}

RECURSIVE SumSeq(_)
SumSeq(s) == IF s = <<>> THEN 0 ELSE Head(s) + SumSeq(Tail(s))

RECURSIVE Flatten(_)
Flatten(ss) == IF ss = <<>> THEN <<>> ELSE Head(ss) \o Flatten(Tail(ss))

\* ------------------------------------------------------------------------
\* State
\* ------------------------------------------------------------------------

\* writer.rs: a call of write_multiple_sheets_arrow_with_configs
VARIABLES
    sheets,               \* the (batches, name, config) triples of the call
    num_threads,          \* the requested worker-pool size
    target,               \* what a reader finds at the target path
    target_before,        \* what was at the target path before the call
    pc,                   \* position of the call
    error,                \* the error the call returns, if any
    style_registry,
    sheet_col_format_maps,
    sheet_cell_style_maps,
    sheet_dxf_mappings,
    results,              \* per sheet, the outcome of its generation task
    order,                \* the sheets whose task has finished, in time order
    saved_error,          \* the error slot of the parallel collect
    xml_and_hyperlinks,
    zipper,               \* the parts added to the container, in order
    global_chart_id,
    global_table_id,
    drawing_id,
    idx                   \* the sheet the assembly loop is at (1-based)

wvars == <<sheets, num_threads, target, target_before, pc, error,
           style_registry, sheet_col_format_maps, sheet_cell_style_maps,
           sheet_dxf_mappings, results, order, saved_error,
           xml_and_hyperlinks, zipper, global_chart_id, global_table_id,
           drawing_id, idx>>

\* validation.rs: a call of write_file_atomic
VARIABLES
    filename,             \* the target path given to the call ("" is empty)
    parent_exists,        \* whether the directory of the target path exists
    write_fn,             \* the callback: how many writes it makes
    dest,                 \* what a reader finds at the target path
    dest_before,          \* what was at the target path before the call
    temp_path,            \* what is at <filename>.tmp.<pid>
    temp_created,         \* File::create(temp_path) has succeeded
    chunks_written,       \* the writes the callback has made so far
    write_result,         \* the result of the closure, once it has one
    apc,                  \* position of the call
    aerror                \* the error the call returns, if any

avars == <<filename, parent_exists, write_fn, dest, dest_before, temp_path,
           temp_created, chunks_written, write_result, apc, aerror>>

\* validation.rs: a call of validate_style_config
VARIABLES
    style_config,         \* the StyleConfig that is validated
    data_rows,            \* the max_row argument
    data_cols,            \* the max_col argument
    validation_result,    \* the ValidationResult, once the call has returned
    to_error_result,      \* what ValidationResult::to_error made of it
    vpc                   \* position of the call

cvars == <<style_config, data_rows, data_cols, validation_result,
           to_error_result, vpc>>

\* styles.rs: one StyleRegistry and the calls made on it
VARIABLES
    own_registry,             \* the StyleRegistry
    registrations         \* the calls so far: method, argument, Result and
                          \* the registry the call left behind

rvars == <<own_registry, registrations>>

\* xml.rs: a call of generate_sheet_xml_from_arrow or _from_dict
VARIABLES
    gen_arrow,            \* the record batches: [schema, batches]
    gen_sheet,            \* the SheetData of the dict writer
    gen_config,           \* the StyleConfig
    gen_col_format_map,   \* column index -> style id
    gen_cell_style_map,   \* (row, column) -> style id
    gen_result,           \* the worksheet document, once the call has returned
    gpc                   \* "call", then "arrow" or "dict"

gvars == <<gen_arrow, gen_sheet, gen_config, gen_col_format_map,
           gen_cell_style_map, gen_result, gpc>>

\* xml.rs: a call of write_col_letter
VARIABLES
    letter_col,           \* the 0-based column index passed in
    letter_buf,           \* the caller's 4-byte buffer; "" is a zero byte
    letter_len,           \* the length returned
    lpc                   \* "call", then "done"

lvars == <<letter_col, letter_buf, letter_len, lpc>>

\* writer.rs: a call of one of the single-sheet entry points
VARIABLES
    single_call,          \* the entry point and its arguments
    single_zipper,        \* the parts added to its ZipArchive
    single_error,         \* the Err it returned, if it did
    spc                   \* "call", then "done"

svars == <<single_call, single_zipper, single_error, spc>>

\* xml.rs: a call of generate_workbook and of generate_workbook_rels
VARIABLES
    book_names,           \* the sheet names passed in
    book_xml,             \* the <sheets> list of xl/workbook.xml
    book_rels,            \* the entries of xl/_rels/workbook.xml.rels
    bpc                   \* "call", then "done"

bvars == <<book_names, book_xml, book_rels, bpc>>

vars == <<wvars, avars, cvars, rvars, gvars, lvars, svars, bvars>>

\* ------------------------------------------------------------------------
\* styles.rs: number formats and the style registry
\* ------------------------------------------------------------------------

\* Characters that char::is_alphabetic / char::is_whitespace accept, within
\* the alphabet the model draws format codes from.
AlphaChars == {"a", "b", "c", "y", "m", "d", "h", "s", "e", "t"}

WhitespaceChars == {" "}

\* is_likely_invalid_format: a code is a sequence of characters.
is_likely_invalid_format(code) ==
    IF code = <<>> THEN TRUE
    ELSE IF \A i \in 1..Len(code) : code[i] \in AlphaChars \cup WhitespaceChars THEN TRUE
    ELSE FALSE

BuiltinFormats ==
    {"General", "Integer", "Decimal2", "Decimal4", "Percentage",
     "PercentageDecimal", "Currency", "CurrencyRounded", "Date", "DateTime",
     "Time", "Scientific", "Fraction", "FractionTwoDigits",
     "ThousandsSeparator", "PercentageInteger"}

\* enum NumberFormat: [kind |-> a built-in name, code |-> <<>>] or
\* [kind |-> "Custom", code |-> the format code].
Builtin(k) == [kind |-> k, code |-> <<>>]

Custom(code) == [kind |-> "Custom", code |-> code]

\* NumberFormat::fmt_info: (base id, optional code)
fmt_info(fmt) ==
    CASE fmt.kind = "General" -> [id |-> 0, code |-> NoneOpt]
      [] fmt.kind = "Integer" -> [id |-> 165, code |-> NoneOpt]
      [] fmt.kind = "Decimal2" -> [id |-> 166, code |-> NoneOpt]
      [] fmt.kind = "Decimal4" -> [id |-> 167, code |-> NoneOpt]
      [] fmt.kind = "Percentage" -> [id |-> 9, code |-> NoneOpt]
      [] fmt.kind = "PercentageDecimal" -> [id |-> 10, code |-> NoneOpt]
      [] fmt.kind = "Currency" -> [id |-> 168, code |-> NoneOpt]
      [] fmt.kind = "CurrencyRounded" -> [id |-> 169, code |-> NoneOpt]
      [] fmt.kind = "Date" -> [id |-> 14, code |-> NoneOpt]
      [] fmt.kind = "DateTime" -> [id |-> 164, code |-> NoneOpt]
      [] fmt.kind = "Time" -> [id |-> 170, code |-> NoneOpt]
      [] fmt.kind = "Scientific" -> [id |-> 175, code |-> NoneOpt]
      [] fmt.kind = "Fraction" -> [id |-> 176, code |-> NoneOpt]
      [] fmt.kind = "FractionTwoDigits" -> [id |-> 177, code |-> NoneOpt]
      [] fmt.kind = "ThousandsSeparator" -> [id |-> 173, code |-> NoneOpt]
      [] fmt.kind = "PercentageInteger" -> [id |-> 174, code |-> NoneOpt]
      [] fmt.kind = "Custom" -> [id |-> 0, code |-> Some(fmt.code)]

FirstCustomFmtId == 178

DefaultFont == [bold |-> FALSE, italic |-> FALSE, underline |-> FALSE,
                size |-> Some(11), color |-> NoneOpt, name |-> Some("Calibri")]

DefaultFonts ==
    << DefaultFont,
       [DefaultFont EXCEPT !.bold = TRUE],
       [DefaultFont EXCEPT !.underline = TRUE, !.color = Some("FF0000FF")] >>

DefaultFills ==
    << [pattern_type |-> "None", fg_color |-> NoneOpt, bg_color |-> NoneOpt],
       [pattern_type |-> "Gray125", fg_color |-> NoneOpt, bg_color |-> NoneOpt],
       [pattern_type |-> "Solid", fg_color |-> Some("FFD9D9D9"), bg_color |-> NoneOpt] >>

DefaultBorders ==
    << [left |-> NoneOpt, right |-> NoneOpt, top |-> NoneOpt, bottom |-> NoneOpt] >>

Xf(n, f, fl, b) ==
    [num_fmt_id |-> n, font_id |-> f, fill_id |-> fl, border_id |-> b,
     alignment |-> NoneOpt]

\* StyleRegistry::build_default_xfs
build_default_xfs ==
    << Xf(0, 0, 0, 0), Xf(164, 0, 0, 0), Xf(0, 1, 0, 0), Xf(0, 1, 2, 0),
       Xf(168, 0, 0, 0), Xf(9, 0, 0, 0), Xf(10, 0, 0, 0), Xf(165, 0, 0, 0),
       Xf(166, 0, 0, 0), Xf(0, 2, 0, 0), Xf(14, 0, 0, 0) >>

\* StyleRegistry::new
NewRegistry ==
    [fonts |-> DefaultFonts, fills |-> DefaultFills, borders |-> DefaultBorders,
     cell_xfs |-> build_default_xfs, dxfs |-> <<>>,
     custom_num_fmts |-> <<>>, next_custom_fmt_id |-> FirstCustomFmtId]

\* The linear scan shared by get_or_add_font / _fill / _border: the index of
\* the first structurally equal entry, or the index of the appended entry.
FirstIndex(list, x) == CHOOSE i \in 1..Len(list) :
                          list[i] = x /\ \A j \in 1..(i - 1) : list[j] # x

get_or_add_AlwaysPush(list, x) ==
    [list |-> Append(list, x), id |-> Len(Append(list, x)) - 1]

get_or_add_NoPush(list, x) ==
    IF \E i \in 1..Len(list) : list[i] = x
    THEN [list |-> list, id |-> FirstIndex(list, x) - 1]
    ELSE [list |-> list, id |-> Len(list) - 1]

get_or_add(list, x) ==
    IF \E i \in 1..Len(list) : list[i] = x
    THEN [list |-> list, id |-> FirstIndex(list, x) - 1]
    ELSE [list |-> Append(list, x), id |-> Len(Append(list, x)) - 1]

get_or_add_num_fmt_SameCounter(reg, fmt) ==
    LET info == fmt_info(fmt)
        code == Unwrap(info.code)
        known == {i \in 1..Len(reg.custom_num_fmts) :
                     reg.custom_num_fmts[i].code = code}
    IN  IF ~IsSome(info.code) THEN [reg |-> reg, ok |-> TRUE, id |-> info.id]
        ELSE IF known # {}
        THEN [reg |-> reg, ok |-> TRUE,
              id |-> reg.custom_num_fmts[CHOOSE i \in known : \A j \in known : i <= j].id]
        ELSE IF is_likely_invalid_format(code)
        THEN [reg |-> reg, ok |-> FALSE, id |-> 0]
        ELSE [reg |-> [reg EXCEPT
                         !.custom_num_fmts =
                             Append(@, [id |-> reg.next_custom_fmt_id, code |-> code])],
              ok |-> TRUE, id |-> reg.next_custom_fmt_id]

\* StyleRegistry::get_or_add_num_fmt; the result is [reg, ok, id].
get_or_add_num_fmt(reg, fmt) ==
    LET info == fmt_info(fmt)
        code == Unwrap(info.code)
        known == {i \in 1..Len(reg.custom_num_fmts) :
                     reg.custom_num_fmts[i].code = code}
    IN  IF ~IsSome(info.code) THEN [reg |-> reg, ok |-> TRUE, id |-> info.id]
        ELSE IF known # {}
        THEN [reg |-> reg, ok |-> TRUE,
              id |-> reg.custom_num_fmts[CHOOSE i \in known : \A j \in known : i <= j].id]
        ELSE IF is_likely_invalid_format(code)
        THEN [reg |-> reg, ok |-> FALSE, id |-> 0]
        ELSE [reg |-> [reg EXCEPT
                         !.custom_num_fmts =
                             Append(@, [id |-> reg.next_custom_fmt_id, code |-> code]),
                         !.next_custom_fmt_id = @ + 1],
              ok |-> TRUE, id |-> reg.next_custom_fmt_id]

\* StyleRegistry::register_cell_style; the result is [reg, ok, id].  Fonts,
\* fills and borders are interned before the number format is resolved, so
\* they stay in the registry when the number format is rejected.
register_cell_style(reg, style) ==
    LET f  == IF IsSome(style.font) THEN get_or_add(reg.fonts, Unwrap(style.font))
              ELSE [list |-> reg.fonts, id |-> 0]
        fl == IF IsSome(style.fill) THEN get_or_add(reg.fills, Unwrap(style.fill))
              ELSE [list |-> reg.fills, id |-> 0]
        b  == IF IsSome(style.border) THEN get_or_add(reg.borders, Unwrap(style.border))
              ELSE [list |-> reg.borders, id |-> 0]
        r1 == [reg EXCEPT !.fonts = f.list, !.fills = fl.list, !.borders = b.list]
        n  == IF IsSome(style.number_format)
              THEN get_or_add_num_fmt(r1, Unwrap(style.number_format))
              ELSE [reg |-> r1, ok |-> TRUE, id |-> 0]
        entry == [num_fmt_id |-> n.id, font_id |-> f.id, fill_id |-> fl.id,
                  border_id |-> b.id, alignment |-> style.alignment]
        x  == get_or_add(n.reg.cell_xfs, entry)
    IN  IF ~n.ok THEN [reg |-> n.reg, ok |-> FALSE, id |-> 0]
        ELSE [reg |-> [n.reg EXCEPT !.cell_xfs = x.list], ok |-> TRUE, id |-> x.id]

\* StyleRegistry::register_dxf: push, and return the index of the new entry.
register_dxf(reg, style) ==
    [reg |-> [reg EXCEPT !.dxfs = Append(@, style)],
     id |-> Len(Append(reg.dxfs, style)) - 1]


\* generate_styles_xml_enhanced, the <dxf> element of one differential
\* format: the font keeps bold/italic/underline/color, the number format
\* only its fmt_info id, the fill only its colours, the alignment only
\* horizontal and vertical.
render_dxf(dxf) ==
    [font |-> IF IsSome(dxf.font)
              THEN Some([bold |-> Unwrap(dxf.font).bold,
                         italic |-> Unwrap(dxf.font).italic,
                         underline |-> Unwrap(dxf.font).underline,
                         color |-> Unwrap(dxf.font).color])
              ELSE NoneOpt,
     numFmtId |-> IF IsSome(dxf.number_format)
                  THEN Some(fmt_info(Unwrap(dxf.number_format)).id)
                  ELSE NoneOpt,
     fill |-> IF IsSome(dxf.fill)
              THEN Some([fgColor |-> Unwrap(dxf.fill).fg_color,
                         bgColor |-> IF IsSome(Unwrap(dxf.fill).fg_color)
                                        /\ ~IsSome(Unwrap(dxf.fill).bg_color)
                                     THEN Some("FFFFFFFF")
                                     ELSE Unwrap(dxf.fill).bg_color])
              ELSE NoneOpt,
     alignment |-> IF IsSome(dxf.alignment)
                   THEN Some([horizontal |-> Unwrap(dxf.alignment).horizontal,
                              vertical |-> Unwrap(dxf.alignment).vertical])
                   ELSE NoneOpt,
     border |-> dxf.border]

\* generate_styles_xml_enhanced, the <xf> element of one cell format.
render_xf(xf) ==
    [numFmtId |-> xf.num_fmt_id, fontId |-> xf.font_id, fillId |-> xf.fill_id,
     borderId |-> 0, alignment |-> xf.alignment]

\* generate_styles_xml_enhanced: the lists of styles.xml, in document order.
generate_styles_xml_enhanced(reg) ==
    [numFmts |-> reg.custom_num_fmts,
     fonts |-> reg.fonts,
     fills |-> reg.fills,
     borders |-> reg.borders,
     cellXfs |-> [i \in 1..Len(reg.cell_xfs) |-> render_xf(reg.cell_xfs[i])],
     dxfs |-> [i \in 1..Len(reg.dxfs) |-> render_dxf(reg.dxfs[i])]]

\* ------------------------------------------------------------------------
\* Package parts
\* ------------------------------------------------------------------------

\* The path of a part inside the zip container: xl/charts/chart{n}.xml is
\* Path("chart", n, "xml"), xl/media/image{n}.{ext} is Path("media", n, ext).
Path(kind, n, ext) == [kind |-> kind, n |-> n, ext |-> ext]

Part(path, content) == [path |-> path, content |-> content]

\* A relationship of a .rels file; ids such as rIdChart2 are [kind, n].
Rel(idkind, n, tgt) == [id |-> [kind |-> idkind, n |-> n], target |-> tgt]

PartsOfKind(zip, kind) == SelectSeq(zip, LAMBDA p : p.path.kind = kind)

PartsAt(zip, path) == SelectSeq(zip, LAMBDA p : p.path = path)

\* ------------------------------------------------------------------------
\* xml.rs: the generators the package writer calls
\* ------------------------------------------------------------------------

\* generate_workbook: one <sheet> entry per name, sheetId and r:id both i.
generate_workbook(sheet_names) ==
    [i \in 1..Len(sheet_names) |->
        [name |-> sheet_names[i], sheetId |-> i, rid |-> [kind |-> "rId", n |-> i]]]

StylesRelId == 100

\* generate_workbook_rels: the styles relationship, then one per sheet.
generate_workbook_rels(num_sheets) ==
    <<Rel("rId", StylesRelId, Path("styles", 0, "xml"))>>
    \o [i \in 1..num_sheets |-> Rel("rId", i, Path("sheet", i, "xml"))]

\* generate_content_types_with_charts: the image extensions declared as
\* Default and the Override part names, each kind numbered by a counter of
\* its own that runs over the sheets.
generate_content_types_with_charts(sheet_names, tables_per_sheet, charts_per_sheet, images_per_sheet) ==
    [defaults |-> UNION {{img.extension : img \in Range(images_per_sheet[i].images)} :
                            i \in 1..Len(images_per_sheet)},
     overrides |->
        [i \in 1..Len(sheet_names) |-> Path("sheet", i, "xml")]
        \o [i \in 1..SumSeq(tables_per_sheet) |-> Path("table", i, "xml")]
        \o [i \in 1..SumSeq(charts_per_sheet) |-> Path("chart", i, "xml")]
        \o [i \in 1..SumSeq([j \in 1..Len(images_per_sheet) |->
                                IF images_per_sheet[j].count > 0 THEN 1 ELSE 0])
               |-> Path("drawing", i, "xml")]]

\* generate_drawing_xml_combined: one anchor per chart, then one per image;
\* chart idx refers to rIdChart{idx+1}, image idx to rIdImage{idx+1}.
generate_drawing_xml_combined(charts, images) ==
    [k \in 1..Len(charts) |->
        [kind |-> "chart", of |-> charts[k], rid |-> [kind |-> "rIdChart", n |-> k]]]
    \o [k \in 1..Len(images) |->
        [kind |-> "image", of |-> images[k], rid |-> [kind |-> "rIdImage", n |-> k]]]

\* The chart part that rIdChart{i} of a drawing rels file targets.
DrawingRelChartTarget(i) == Path("chart", i, "xml")

\* generate_drawing_rels_combined
generate_drawing_rels_combined(num_charts, images) ==
    [i \in 1..num_charts |-> Rel("rIdChart", i, DrawingRelChartTarget(i))]
    \o [i \in 1..Len(images) |-> Rel("rIdImage", i, Path("media", i, images[i].extension))]

\* The lookup as it would be if the rule's own index were written as dxfId.
DxfIdLookup_RuleIndex(cond_format_dxf_ids, rule_idx) == Some(rule_idx)

\* config.cond_format_dxf_ids.get(&idx): the id recorded under the rule's
\* 0-based index, if one is.
DxfIdLookup(cond_format_dxf_ids, rule_idx) ==
    IF rule_idx + 1 \in DOMAIN cond_format_dxf_ids THEN cond_format_dxf_ids[rule_idx + 1]
    ELSE NoneOpt

\* write_conditional_formatting: the cfRule type of each rule, with the
\* dxfId looked up under the rule's index for CellValue and Top10 rules.
write_conditional_formatting(formats, cond_format_dxf_ids) ==
    [i \in 1..Len(formats) |->
        CASE formats[i].rule = "CellValue" ->
                [type |-> "cellIs", dxfId |-> DxfIdLookup(cond_format_dxf_ids, i - 1),
                 priority |-> formats[i].priority]
          [] formats[i].rule = "ColorScale" ->
                [type |-> "colorScale", dxfId |-> NoneOpt, priority |-> formats[i].priority]
          [] formats[i].rule = "DataBar" ->
                [type |-> "dataBar", dxfId |-> NoneOpt, priority |-> formats[i].priority]
          [] formats[i].rule = "Top10" ->
                [type |-> "top10", dxfId |-> DxfIdLookup(cond_format_dxf_ids, i - 1),
                 priority |-> formats[i].priority]]

\* generate_sheet_xml_from_arrow as the package writer sees it: an error
\* when a column of the batches cannot be converted, else the worksheet
\* document of these batches with its conditional formatting section.
generate_sheet_xml_from_arrow(batches, config, cond_format_dxf_ids) ==
    IF batches.bad_data
    THEN [ok |-> FALSE, xml |-> <<>>]
    ELSE [ok |-> TRUE,
          xml |-> [batches |-> batches.id,
                   conditionalFormatting |->
                       write_conditional_formatting(config.conditional_formats,
                                                    cond_format_dxf_ids)]]

\* ------------------------------------------------------------------------
\* xml.rs: the worksheet document, element by element and cell by cell
\* ------------------------------------------------------------------------

\* A HashMap is a set of [key, value] entries with distinct keys.
MapGet(map, key) ==
    IF \E e \in map : e.key = key
    THEN Some((CHOOSE e \in map : e.key = key).value)
    ELSE NoneOpt

Letters == <<"A", "B", "C", "D", "E", "F", "G", "H", "I", "J", "K", "L", "M",
             "N", "O", "P", "Q", "R", "S", "T", "U", "V", "W", "X", "Y", "Z">>

\* write_col_letter with the subtraction of line 76 left out.
RECURSIVE write_col_letter_NoBorrow(_)
write_col_letter_NoBorrow(col) ==
    IF col < 26 THEN <<Letters[col + 1]>>
    ELSE write_col_letter_NoBorrow(col \div 26) \o <<Letters[(col % 26) + 1]>>

\* write_col_letter: the letters of the 0-based column col.  The loop pushes
\* the last letter first and the buffer is filled from the top of the stack.
RECURSIVE write_col_letter(_)
write_col_letter(col) ==
    IF col < 26 THEN <<Letters[col + 1]>>
    ELSE write_col_letter((col \div 26) - 1) \o <<Letters[(col % 26) + 1]>>

\* write_cell_ref and the cell_ref buffers: column letters, then the row
\* number as itoa writes it.
write_cell_ref(col, row) == [letters |-> write_col_letter(col), row |-> row]

\* A ref attribute: one cell, or first:last.
RangeRef(first, last) == [first |-> first, last |-> last]

\* One <c> element: its r, s and t attributes and its <f>, <v> and <is><t>
\* children, each absent or present.
CellXml(ref, s, t, f, v, is) ==
    [r |-> ref, s |-> s, t |-> t, f |-> f, v |-> v, is |-> is]

\* One <row> element.
RowXml(r, cells) == [r |-> r, cells |-> cells]

\* An f64 is [class, whole, tenths]: NaN, an infinity, or the finite number
\* whole + tenths / 10.
is_finite(n) == n.class = "finite"

\* The text of a number in the document.
Text(kind, whole, tenths) == [kind |-> kind, whole |-> whole, tenths |-> tenths]

\* ryu::Buffer::format: the shortest text of a finite number, and the words
\* NaN, inf and -inf for the others.
ryu_format(n) ==
    CASE n.class = "nan" -> Text("NaN", 0, 0)
      [] n.class = "inf" -> Text("inf", 0, 0)
      [] n.class = "neg_inf" -> Text("-inf", 0, 0)
      [] OTHER -> Text("float", n.whole, n.tenths)

\* itoa::Buffer::format
itoa_format(i) == Text("int", i, 0)

\* The text both writers put in <v> for a number: integer text for a whole
\* number other than zero (below 2^53), ryu text for every other value.
NumberText(n) ==
    IF is_finite(n) /\ n.tenths = 0 /\ n.whole # 0
    THEN itoa_format(n.whole)
    ELSE ryu_format(n)

\* write_number_cell_int
write_number_cell_int(i, ref, style_id) ==
    CellXml(ref, style_id, NoneOpt, NoneOpt, Some(itoa_format(i)), NoneOpt)

\* write_number_cell
write_number_cell(n, ref, style_id) ==
    IF ~is_finite(n)
    THEN CellXml(ref, style_id, NoneOpt, NoneOpt, NoneOpt, NoneOpt)
    ELSE CellXml(ref, style_id, NoneOpt, NoneOpt, Some(NumberText(n)), NoneOpt)

\* datetime_to_excel_serial; a date is [days, tenths]: whole days since the
\* Excel epoch and tenths of a day.
datetime_to_excel_serial(dt) == [class |-> "finite", whole |-> dt.days, tenths |-> dt.tenths]

\* write_date_cell
write_date_cell(dt, ref, style_id) ==
    CellXml(ref, Some(IF IsSome(style_id) THEN Unwrap(style_id) ELSE 1), NoneOpt,
            NoneOpt, Some(ryu_format(datetime_to_excel_serial(dt))), NoneOpt)

\* write_arrow_cell_to_xml_optimized, lines 2414-2614, for one value that is
\* not null, by the type of its column: the result is [ok, cells], cells
\* holding the element written, if any.  A value is
\* [data_type, null, value]; Utf8 stands for both string types, Int64 for
\* the integer types, Float64 for the float and time types, Date32 for
\* both date types, and Other for the types that have no branch.
TypedCell(array_value, ref, style_id) ==
    CASE array_value.data_type = "Utf8" ->
           IF array_value.value = "" /\ ~IsSome(style_id)
           THEN [ok |-> TRUE, cells |-> <<>>]
           ELSE [ok |-> TRUE,
                 cells |-> <<CellXml(ref, style_id, Some("inlineStr"), NoneOpt,
                                     NoneOpt, Some(array_value.value))>>]
      [] array_value.data_type = "Int64" ->
           [ok |-> TRUE,
            cells |-> <<write_number_cell_int(array_value.value, ref, style_id)>>]
      [] array_value.data_type = "Float64" ->
           [ok |-> TRUE,
            cells |-> <<write_number_cell(array_value.value, ref, style_id)>>]
      [] array_value.data_type = "Boolean" ->
           [ok |-> TRUE,
            cells |-> <<CellXml(ref, style_id, Some("b"), NoneOpt,
                                Some(IF array_value.value THEN Text("int", 1, 0) ELSE Text("int", 0, 0)),
                                NoneOpt)>>]
      [] array_value.data_type = "Date32" ->
           IF ~array_value.value.in_range
           THEN [ok |-> FALSE, cells |-> <<>>]
           ELSE [ok |-> TRUE,
                 cells |-> <<write_date_cell(
                                array_value.value.date, ref,
                                IF IsSome(style_id) THEN style_id ELSE Some(10))>>]
      [] array_value.data_type = "Timestamp" ->
           IF ~array_value.value.in_range
           THEN [ok |-> FALSE, cells |-> <<>>]
           ELSE [ok |-> TRUE,
                 cells |-> <<write_date_cell(
                                array_value.value.date, ref,
                                IF IsSome(style_id) THEN style_id ELSE Some(1))>>]
      [] OTHER ->
           [ok |-> TRUE,
            cells |-> <<CellXml(ref, style_id, NoneOpt, NoneOpt, NoneOpt, NoneOpt)>>]

\* The cell writer with the hyperlink tested before the formula.
write_arrow_cell_to_xml_optimized_LinkFirst(array_value, ref, style_id, hyperlink, formula) ==
    IF IsSome(hyperlink)
    THEN [ok |-> TRUE,
          cells |-> <<CellXml(ref, Some(9), Some("inlineStr"), NoneOpt, NoneOpt,
                              Some(IF IsSome(Unwrap(hyperlink).display)
                                   THEN Unwrap(Unwrap(hyperlink).display)
                                   ELSE Unwrap(hyperlink).url))>>]
    ELSE IF IsSome(formula)
    THEN [ok |-> TRUE,
          cells |-> <<CellXml(ref, style_id, NoneOpt, Some(Unwrap(formula).formula),
                              Unwrap(formula).cached_value, NoneOpt)>>]
    ELSE IF array_value.null
    THEN [ok |-> TRUE,
          cells |-> <<CellXml(ref, style_id, NoneOpt, NoneOpt, NoneOpt, NoneOpt)>>]
    ELSE TypedCell(array_value, ref, style_id)

\* write_arrow_cell_to_xml_optimized, lines 2371-2412: a formula first, then
\* a hyperlink, then a null, then the value by the type of the column.
write_arrow_cell_to_xml_optimized(array_value, ref, style_id, hyperlink, formula) ==
    IF IsSome(formula)
    THEN [ok |-> TRUE,
          cells |-> <<CellXml(ref, style_id, NoneOpt, Some(Unwrap(formula).formula),
                              Unwrap(formula).cached_value, NoneOpt)>>]
    ELSE IF IsSome(hyperlink)
    THEN [ok |-> TRUE,
          cells |-> <<CellXml(ref, Some(9), Some("inlineStr"), NoneOpt, NoneOpt,
                              Some(IF IsSome(Unwrap(hyperlink).display)
                                   THEN Unwrap(Unwrap(hyperlink).display)
                                   ELSE Unwrap(hyperlink).url))>>]
    ELSE IF array_value.null
    THEN [ok |-> TRUE,
          cells |-> <<CellXml(ref, style_id, NoneOpt, NoneOpt, NoneOpt, NoneOpt)>>]
    ELSE TypedCell(array_value, ref, style_id)

\* The keys of a set in ascending order (sorted_rows).
RECURSIVE Sorted(_)
Sorted(S) ==
    IF S = {} THEN <<>>
    ELSE LET least == CHOOSE x \in S : \A y \in S : x <= y
         IN  <<least>> \o Sorted(S \ {least})

\* data_start: where the header row, or else the first data row, is written.
DataStart(config) ==
    IF config.write_header_row
    THEN (IF config.data_start_row > 1 THEN config.data_start_row ELSE 1)
    ELSE config.data_start_row

\* Lines 1868-1929: the rows of header_content above data_start, in row
\* order, each with its cells in the order of header_content.
HeaderContentRows(config, cell_style_map) ==
    LET hc == config.header_content
        keys == Sorted({hc[i][1] : i \in 1..Len(hc)})
        kept == SelectSeq(keys, LAMBDA r : r < DataStart(config))
        CellsOf(r) ==
            LET at == SelectSeq(hc, LAMBDA e : e[1] = r)
            IN  [k \in 1..Len(at) |->
                    CellXml(write_cell_ref(at[k][2], r),
                            MapGet(cell_style_map, <<r, at[k][2]>>),
                            Some("inlineStr"), NoneOpt, NoneOpt, Some(at[k][3]))]
    IN  [k \in 1..Len(kept) |-> RowXml(kept[k], CellsOf(kept[k]))]

\* Lines 1931-1965: the header row of the column names.
HeaderRow(schema, config) ==
    IF ~config.write_header_row THEN <<>>
    ELSE << RowXml(DataStart(config),
                   [c \in 1..Len(schema) |->
                       CellXml(write_cell_ref(c - 1, DataStart(config)),
                               IF config.styled_headers THEN Some(2) ELSE NoneOpt,
                               Some("inlineStr"), NoneOpt, NoneOpt,
                               Some(schema[c]))]) >>

\* Lines 1969-1979: table_header_rows, the columns of the table that starts
\* at a row below data_start; a later table replaces an earlier one that
\* starts at the same row.
TableHeaderAt(config, row) ==
    LET at == {t \in 1..Len(config.tables) :
                  /\ config.tables[t].range.start_row = row
                  /\ config.tables[t].range.start_row > DataStart(config)}
    IN  IF at = {} THEN NoneOpt
        ELSE Some(config.tables[CHOOSE t \in at : \A u \in at : u <= t].range)

\* Lines 2057-2098: the cells of one data row.
RECURSIVE DataCells(_, _, _, _, _, _)
DataCells(values, col_idx, row_num, config, col_format_map, cell_style_map) ==
    IF col_idx >= Len(values) THEN [ok |-> TRUE, cells |-> <<>>]
    ELSE LET custom_style_id == MapGet(cell_style_map, <<row_num, col_idx>>)
             default_style_id == MapGet(col_format_map, col_idx)
             style_id == IF IsSome(custom_style_id) THEN custom_style_id
                         ELSE default_style_id
             links == SelectSeq(config.hyperlinks,
                                LAMBDA h : h.row = row_num /\ h.col = col_idx)
             forms == SelectSeq(config.formulas,
                                LAMBDA f : f.row = row_num /\ f.col = col_idx)
             one == write_arrow_cell_to_xml_optimized(
                        values[col_idx + 1], write_cell_ref(col_idx, row_num), style_id,
                        IF links = <<>> THEN NoneOpt ELSE Some(links[Len(links)]),
                        IF forms = <<>> THEN NoneOpt ELSE Some(forms[Len(forms)]))
             rest == DataCells(values, col_idx + 1, row_num, config, col_format_map,
                               cell_style_map)
         IN  IF ~one.ok \/ ~rest.ok THEN [ok |-> FALSE, cells |-> <<>>]
             ELSE [ok |-> TRUE, cells |-> one.cells \o rest.cells]

\* Lines 1986-2102: the data rows of all batches in order, with the header
\* row of a table inserted before the data row that would take its place.
RECURSIVE DataRows(_, _, _, _, _, _, _)
DataRows(data, k, current_row, schema, config, col_format_map, cell_style_map) ==
    IF k > Len(data) THEN [ok |-> TRUE, rows |-> <<>>]
    ELSE LET th == TableHeaderAt(config, current_row)
             inserted ==
                 IF ~IsSome(th) THEN <<>>
                 ELSE << RowXml(current_row,
                            [c \in 1..(Unwrap(th).end_col - Unwrap(th).start_col + 1) |->
                                CellXml(write_cell_ref(Unwrap(th).start_col + c - 1,
                                                       current_row),
                                        MapGet(cell_style_map,
                                               <<current_row,
                                                 Unwrap(th).start_col + c - 1>>),
                                        Some("inlineStr"), NoneOpt, NoneOpt,
                                        Some(schema[Unwrap(th).start_col + c]))]) >>
             row_num == IF IsSome(th) THEN current_row + 1 ELSE current_row
             cells == DataCells(data[k], 0, row_num, config, col_format_map,
                                cell_style_map)
             rest == DataRows(data, k + 1, row_num + 1, schema, config,
                              col_format_map, cell_style_map)
         IN  IF ~cells.ok \/ ~rest.ok THEN [ok |-> FALSE, rows |-> <<>>]
             ELSE [ok |-> TRUE,
                   rows |-> inserted \o <<RowXml(row_num, cells.cells)>> \o rest.rows]

\* The element names written when a condition holds.
Elem(present, name) == IF present THEN <<name>> ELSE <<>>

DrawingAndTableParts_TablesFirst(config) ==
    Elem(config.tables # <<>>, "tableParts")
    \o Elem(config.charts # <<>> \/ config.images # <<>>, "drawing")

\* Lines 2236-2256: the drawing reference, then the table parts.
DrawingAndTableParts(config) ==
    Elem(config.charts # <<>> \/ config.images # <<>>, "drawing")
    \o Elem(config.tables # <<>>, "tableParts")

\* generate_sheet_xml_from_arrow in full: the top-level elements in the
\* order in which they are pushed to the buffer, and the rows of sheetData.
\* arrow is [schema, batches]: the column names and, per batch, its rows.
generate_sheet_xml_from_arrow_doc(arrow, config, col_format_map, cell_style_map) ==
    IF arrow.batches = <<>> \/ arrow.schema = <<>>
    THEN [ok |-> TRUE, elements |-> <<"dimension", "sheetData">>, rows |-> <<>>,
          dimension |-> RangeRef(write_cell_ref(0, 1), NoneOpt),
          autoFilter |-> NoneOpt]
    ELSE LET data == Flatten(arrow.batches)
             total_rows == Len(data)
             num_cols == Len(arrow.schema)
             first_data_row == IF config.write_header_row THEN DataStart(config) + 1
                               ELSE DataStart(config)
             body == DataRows(data, 1, first_data_row, arrow.schema, config,
                              col_format_map, cell_style_map)
             has_full_table ==
                 \E t \in 1..Len(config.tables) :
                     /\ config.tables[t].range.start_row = 1
                     /\ config.tables[t].range.start_col = 0
                     /\ config.tables[t].range.end_row >= total_rows
                     /\ config.tables[t].range.end_col >= num_cols - 1
             \* lines 1693-1702: the tables counted for the dimension
             num_inserted_headers ==
                 Cardinality({t \in 1..Len(config.tables) :
                                 config.tables[t].range.start_row > 1})
         IN  IF ~body.ok
             THEN [ok |-> FALSE, elements |-> <<>>, rows |-> <<>>,
                   dimension |-> RangeRef(write_cell_ref(0, 1), NoneOpt),
                   autoFilter |-> NoneOpt]
             ELSE [ok |-> TRUE,
                   elements |->
                       Elem(IsSome(config.tab_color), "sheetPr")
                       \o <<"dimension", "sheetViews", "sheetFormatPr">>
                       \o Elem(config.auto_width \/ IsSome(config.column_widths)
                                   \/ config.hidden_columns # {}, "cols")
                       \o <<"sheetData">>
                       \o Elem(config.auto_filter /\ total_rows > 0 /\ ~has_full_table,
                               "autoFilter")
                       \o Elem(config.merge_cells # <<>>, "mergeCells")
                       \o [i \in 1..Len(config.conditional_formats) |->
                              "conditionalFormatting"]
                       \o Elem(config.data_validations # <<>>, "dataValidations")
                       \o Elem(config.hyperlinks # <<>>, "hyperlinks")
                       \o DrawingAndTableParts(config),
                   rows |-> HeaderContentRows(config, cell_style_map)
                            \o HeaderRow(arrow.schema, config)
                            \o body.rows,
                   dimension |->
                       IF total_rows > 0
                       THEN RangeRef(write_cell_ref(0, 1),
                                     Some(write_cell_ref(num_cols - 1,
                                              total_rows + 1 + num_inserted_headers)))
                       ELSE RangeRef(write_cell_ref(0, 1), NoneOpt),
                   autoFilter |->
                       IF config.auto_filter /\ total_rows > 0 /\ ~has_full_table
                       THEN Some(RangeRef(write_cell_ref(0, 1),
                                          Some(write_cell_ref(num_cols - 1,
                                                              total_rows + 1))))
                       ELSE NoneOpt]

\* One cell of the dict writer; a CellValue is [kind, value].
DictCell(cell_val, ref) ==
    CASE cell_val.kind = "Empty" ->
            CellXml(ref, NoneOpt, NoneOpt, NoneOpt, NoneOpt, NoneOpt)
      [] cell_val.kind = "String" ->
            CellXml(ref, NoneOpt, Some("inlineStr"), NoneOpt, NoneOpt,
                    Some(cell_val.value))
      [] cell_val.kind = "Number" ->
            CellXml(ref, NoneOpt, NoneOpt, NoneOpt, Some(NumberText(cell_val.value)),
                    NoneOpt)
      [] cell_val.kind = "Bool" ->
            CellXml(ref, NoneOpt, Some("b"), NoneOpt,
                    Some(IF cell_val.value THEN Text("int", 1, 0) ELSE Text("int", 0, 0)), NoneOpt)
      [] cell_val.kind = "Date" ->
            CellXml(ref, Some(1), NoneOpt, NoneOpt,
                    Some(ryu_format(datetime_to_excel_serial(cell_val.value))), NoneOpt)

\* generate_sheet_xml_from_dict; a sheet is a sequence of columns
\* [header, values].
generate_sheet_xml_from_dict(dict_sheet, config) ==
    LET num_cols == Len(dict_sheet)
        num_rows == IF num_cols = 0 THEN 0 ELSE Len(dict_sheet[1].values)
    IN  IF num_cols = 0
        THEN [ok |-> TRUE, elements |-> <<"dimension", "sheetData">>, rows |-> <<>>,
              dimension |-> RangeRef(write_cell_ref(0, 1), NoneOpt),
              autoFilter |-> NoneOpt]
        ELSE [ok |-> TRUE,
              elements |->
                  <<"dimension">>
                  \o Elem(config.freeze_rows > 0 \/ config.freeze_cols > 0, "sheetViews")
                  \o <<"sheetData">>
                  \o Elem(config.auto_filter /\ num_rows > 0, "autoFilter")
                  \o Elem(config.charts # <<>>, "drawing"),
              rows |->
                  << RowXml(1, [c \in 1..num_cols |->
                                   CellXml(write_cell_ref(c - 1, 1), NoneOpt,
                                           Some("inlineStr"), NoneOpt, NoneOpt,
                                           Some(dict_sheet[c].header))]) >>
                  \o [r \in 1..num_rows |->
                         RowXml(r + 1,
                                [c \in 1..num_cols |->
                                    DictCell(dict_sheet[c].values[r],
                                             write_cell_ref(c - 1, r + 1))])],
              dimension |->
                  IF num_rows > 0
                  THEN RangeRef(write_cell_ref(0, 1),
                                Some(write_cell_ref(num_cols - 1, num_rows + 1)))
                  ELSE RangeRef(write_cell_ref(0, 1), NoneOpt),
              autoFilter |->
                  IF config.auto_filter /\ num_rows > 0
                  THEN Some(RangeRef(write_cell_ref(0, 1),
                                     Some(write_cell_ref(num_cols - 1, num_rows + 1))))
                  ELSE NoneOpt]

\* ------------------------------------------------------------------------
\* validation.rs: the pre-flight validator
\* ------------------------------------------------------------------------

MAX_ROWS == 1048576

MAX_COLS == 16384

\* MAX_ROW_HEIGHT (409.5) and MAX_COL_WIDTH (255.0); heights and widths are
\* counted in tenths.
MAX_ROW_HEIGHT == 4095

MAX_COL_WIDTH == 2550

UpperChars == {"A", "B", "T"}

DigitChars == {"0", "1", "2"}

\* char::to_lowercase on the letters of the model.
ToLower(c) ==
    CASE c = "A" -> "a"
      [] c = "B" -> "b"
      [] c = "T" -> "t"
      [] OTHER -> c

to_lowercase(str) == [i \in 1..Len(str) |-> ToLower(str[i])]

is_alphabetic(c) == c \in AlphaChars \cup UpperChars

is_alphanumeric(c) == is_alphabetic(c) \/ c \in DigitChars

\* ValidationResult::is_valid
is_valid(res) == res.errors = <<>>

\* [String]::join: the strings with the separator between neighbours.
RECURSIVE join(_, _)
join(strs, sep) ==
    IF strs = <<>> THEN <<>>
    ELSE IF Len(strs) = 1 THEN <<strs[1]>>
    ELSE <<strs[1], sep>> \o join(Tail(strs), sep)

\* ValidationResult::to_error as it would be if warnings failed a result.
to_error_WarningsFail(res) ==
    IF res.errors = <<>> /\ res.warnings = <<>>
    THEN [ok |-> TRUE, kind |-> "", count |-> 0, message |-> <<>>]
    ELSE [ok |-> FALSE, kind |-> "Validation", count |-> Len(res.errors),
          message |-> join(res.errors, "\n")]

\* ValidationResult::to_error: Ok(()), or one Validation error whose message
\* is "Validation failed with {count} errors:\n" and the joined errors.
to_error(res) ==
    IF is_valid(res)
    THEN [ok |-> TRUE, kind |-> "", count |-> 0, message |-> <<>>]
    ELSE [ok |-> FALSE, kind |-> "Validation", count |-> Len(res.errors),
          message |-> join(res.errors, "\n")]

\* validate_cell_coords: Err (a reason) or Ok (NoneOpt).
validate_cell_coords(row, col, context) ==
    IF row > MAX_ROWS THEN Some(<<context, "row out of range", row>>)
    ELSE IF col >= MAX_COLS THEN Some(<<context, "column out of range", col>>)
    ELSE NoneOpt

\* The first Err of a sequence of checks, as the ? operator returns it.
RECURSIVE FirstErr(_)
FirstErr(checks) ==
    IF checks = <<>> THEN NoneOpt
    ELSE IF IsSome(Head(checks)) THEN Head(checks)
    ELSE FirstErr(Tail(checks))

Check(failed, reason) == IF failed THEN Some(reason) ELSE NoneOpt

\* validate_merge_range
validate_merge_range(merge, max_row, max_col) ==
    FirstErr(<<
        Check(merge.start_row > merge.end_row, <<"Merge cell", "start_row > end_row">>),
        Check(merge.start_col > merge.end_col, <<"Merge cell", "start_col > end_col">>),
        validate_cell_coords(merge.start_row, merge.start_col, "Merge cell start"),
        validate_cell_coords(merge.end_row, merge.end_col, "Merge cell end"),
        Check(merge.end_row > max_row, <<"Merge cell", "end_row exceeds data rows">>),
        Check(merge.end_col >= max_col, <<"Merge cell", "end_col exceeds data columns">>) >>)

ranges_overlap(m1, m2) ==
    ~(\/ m1.end_row < m2.start_row
      \/ m1.start_row > m2.end_row
      \/ m1.end_col < m2.start_col
      \/ m1.start_col > m2.end_col)

\* The pairs (i, j), i < j, of overlapping merges.
OverlappingPairs(merges) ==
    {p \in (1..Len(merges)) \X (1..Len(merges)) :
        p[1] < p[2] /\ ranges_overlap(merges[p[1]], merges[p[2]])}

\* validate_merge_overlaps: the nested loops return at the first
\* overlapping pair, in the order (i, j) is visited.
validate_merge_overlaps(merges) ==
    LET pairs == OverlappingPairs(merges)
    IN  IF pairs = {} THEN NoneOpt
        ELSE LET first == CHOOSE p \in pairs : \A q \in pairs :
                              p[1] < q[1] \/ (p[1] = q[1] /\ p[2] <= q[2])
             IN  Some(<<"Merge ranges overlap", first[1] - 1, first[2] - 1>>)

\* validate_table; a table is [name, display_name, range], the range being
\* [start_row, start_col, end_row, end_col].
validate_table(table, max_row, max_col) ==
    LET r == table.range
    IN  FirstErr(<<
            Check(table.name = <<>>, <<"Table", "name cannot be empty">>),
            Check(table.display_name = <<>>, <<"Table", "display_name cannot be empty">>),
            Check(table.name # <<>> /\ ~is_alphabetic(table.name[1]) /\ table.name[1] # "_",
                  <<"Table", "must start with letter or underscore">>),
            Check(~(\A i \in 1..Len(table.name) :
                       is_alphanumeric(table.name[i]) \/ table.name[i] = "_"),
                  <<"Table", "contains invalid characters">>),
            validate_cell_coords(r.start_row, r.start_col, "Table start"),
            validate_cell_coords(r.end_row, r.end_col, "Table end"),
            Check(r.start_row > r.end_row \/ r.start_col > r.end_col,
                  <<"Table", "invalid range">>),
            Check(r.end_row > max_row \/ r.end_col >= max_col,
                  <<"Table", "range exceeds data bounds">>),
            Check(r.end_row <= r.start_row, <<"Table", "must have at least 2 rows">>) >>)

\* validate_table_names: the loop over the tables with the set of names
\* seen so far; it returns at the first collision.
RECURSIVE TableNamesFrom(_, _, _)
TableNamesFrom(tables, i, seen) ==
    IF i > Len(tables) THEN NoneOpt
    ELSE LET lower == to_lowercase(tables[i].name)
             display_lower == to_lowercase(tables[i].display_name)
         IN  IF lower \in seen
             THEN Some(<<"Duplicate table name", i - 1>>)
             ELSE IF display_lower # lower /\ display_lower \in seen
             THEN Some(<<"Table display name conflicts", i - 1>>)
             ELSE TableNamesFrom(tables, i + 1, seen \cup {lower})

validate_table_names(tables) == TableNamesFrom(tables, 1, {})

\* validate_chart; a chart is [data_range, category_col].
validate_chart(chart, max_row, max_col) ==
    LET r == chart.data_range
    IN  FirstErr(<<
            validate_cell_coords(r.start_row, r.start_col, "Chart data start"),
            validate_cell_coords(r.end_row, r.end_col, "Chart data end"),
            Check(r.start_row > r.end_row \/ r.start_col > r.end_col,
                  <<"Chart", "invalid data range">>),
            Check(r.end_row > max_row \/ r.end_col >= max_col,
                  <<"Chart", "data range exceeds sheet bounds">>),
            Check(IsSome(chart.category_col)
                  /\ (Unwrap(chart.category_col) < r.start_col
                      \/ Unwrap(chart.category_col) > r.end_col),
                  <<"Chart", "category_col is outside data range">>) >>)

\* validate_row_heights iterates a HashMap and returns at the first bad
\* entry.  The iteration order is not fixed, so any bad entry can be the one
\* reported: the set of the possible results.
BadRowHeights(heights) ==
    {row \in DOMAIN heights :
        \/ row = 0 \/ row > MAX_ROWS
        \/ heights[row] < 0 \/ heights[row] > MAX_ROW_HEIGHT}

validate_row_heights(heights) ==
    IF BadRowHeights(heights) = {} THEN {NoneOpt}
    ELSE {Some(<<"Row height", row>>) : row \in BadRowHeights(heights)}

\* validate_column_widths, a HashMap likewise.
BadColumnWidths(widths) ==
    {c \in DOMAIN widths : widths[c] < 0 \/ widths[c] > MAX_COL_WIDTH}

validate_column_widths(widths) ==
    IF BadColumnWidths(widths) = {} THEN {NoneOpt}
    ELSE {Some(<<"Column width", c>>) : c \in BadColumnWidths(widths)}

\* validate_freeze_panes
validate_freeze_panes(freeze_rows, freeze_cols, max_row, max_col) ==
    FirstErr(<<
        Check(freeze_rows >= max_row, <<"freeze_rows exceeds data rows", freeze_rows>>),
        Check(freeze_cols >= max_col, <<"freeze_cols exceeds data columns", freeze_cols>>) >>)

\* validate_conditional_formats: the loop with the map from priority to the
\* index that holds it; it returns at the first duplicate or bad range.
RECURSIVE CondFormatsFrom(_, _, _)
CondFormatsFrom(formats, i, priorities) ==
    IF i > Len(formats) THEN NoneOpt
    ELSE LET f == formats[i]
         IN  IF \E e \in priorities : e.priority = f.priority
             THEN Some(<<"duplicate priority",
                         (CHOOSE e \in priorities : e.priority = f.priority).idx,
                         i - 1, f.priority>>)
             ELSE LET e == FirstErr(<<
                         validate_cell_coords(f.start_row, f.start_col,
                                              "Conditional format start"),
                         validate_cell_coords(f.end_row, f.end_col,
                                              "Conditional format end"),
                         Check(f.start_row > f.end_row \/ f.start_col > f.end_col,
                               <<"Conditional format", "invalid range", i - 1>>) >>)
                  IN  IF IsSome(e) THEN e
                      ELSE CondFormatsFrom(formats, i + 1,
                              priorities \cup {[priority |-> f.priority, idx |-> i - 1]})

validate_conditional_formats(formats) == CondFormatsFrom(formats, 1, {})

\* One error entry for an Err, none for an Ok.
Entry(label, e) == IF IsSome(e) THEN <<<<label, Unwrap(e)>>>> ELSE <<>>

\* validate_style_config.  row_heights_result and column_widths_result are
\* the results of the two HashMap scans.  The result is [errors, warnings].
validate_style_config(config, max_row, max_col, row_heights_result, column_widths_result) ==
    [errors |->
        Flatten([i \in 1..Len(config.merge_cells) |->
                    Entry(<<"Merge cell", i - 1>>,
                          validate_merge_range(config.merge_cells[i], max_row, max_col))])
        \o Entry(<<"Merge overlaps">>, validate_merge_overlaps(config.merge_cells))
        \o Flatten([i \in 1..Len(config.tables) |->
                    Entry(<<"Table", i - 1>>,
                          validate_table(config.tables[i], max_row, max_col))])
        \o Entry(<<"Table names">>, validate_table_names(config.tables))
        \o Flatten([i \in 1..Len(config.charts) |->
                    Entry(<<"Chart", i - 1>>,
                          validate_chart(config.charts[i], max_row, max_col))])
        \o (IF IsSome(config.row_heights)
            THEN Entry(<<"Row heights">>, row_heights_result) ELSE <<>>)
        \o (IF IsSome(config.column_widths)
            THEN Entry(<<"Column widths">>, column_widths_result) ELSE <<>>)
        \o (IF config.freeze_rows > 0 \/ config.freeze_cols > 0
            THEN Entry(<<"Freeze panes">>,
                       validate_freeze_panes(config.freeze_rows, config.freeze_cols,
                                             max_row, max_col))
            ELSE <<>>)
        \o (IF config.conditional_formats # <<>>
            THEN Entry(<<"Conditional formats">>,
                       validate_conditional_formats(config.conditional_formats))
            ELSE <<>>)
        \o Flatten([i \in 1..Len(config.cell_styles) |->
                    Entry(<<"Cell style", i - 1>>,
                          validate_cell_coords(config.cell_styles[i].row,
                                               config.cell_styles[i].col, "Cell style"))])
        \o Flatten([i \in 1..Len(config.hyperlinks) |->
                    Entry(<<"Hyperlink", i - 1>>,
                          validate_cell_coords(config.hyperlinks[i].row,
                                               config.hyperlinks[i].col, "Hyperlink"))
                    \o Entry(<<"Hyperlink", i - 1>>,
                             Check(config.hyperlinks[i].url = <<>>,
                                   <<"Hyperlink", "URL cannot be empty">>))])
        \o Flatten([i \in 1..Len(config.formulas) |->
                    Entry(<<"Formula", i - 1>>,
                          validate_cell_coords(config.formulas[i].row,
                                               config.formulas[i].col, "Formula"))
                    \o Entry(<<"Formula", i - 1>>,
                             Check(config.formulas[i].formula = <<>>,
                                   <<"Formula", "formula string cannot be empty">>))]),
     warnings |->
        Flatten([i \in 1..Len(config.formulas) |->
                    IF \E h \in Range(config.hyperlinks) :
                          h.row = config.formulas[i].row /\ h.col = config.formulas[i].col
                    THEN <<<<"Formula", i - 1, "cell also has hyperlink">>>>
                    ELSE <<>>])]

\* ------------------------------------------------------------------------
\* writer.rs: write_multiple_sheets_arrow_with_configs
\* ------------------------------------------------------------------------

MaxSheetNameLen == 31

InvalidSheetNameChars == {"[", "]", "'", ":", "*", "?", "/", "\\"}

\* writer.rs validate_sheet_name; a name is a sequence of characters.
validate_sheet_name(name) ==
    IF Len(name) > MaxSheetNameLen THEN FALSE
    ELSE IF \E i \in 1..Len(name) : name[i] \in InvalidSheetNameChars THEN FALSE
    ELSE TRUE

ValidationError(at, sheet) == [kind |-> "Validation", at |-> at, sheet |-> sheet]

IoError(at) == [kind |-> "Io", at |-> at, sheet |-> 0]

NumSheets == Len(sheets)

\* Lines 358-360: the names are validated in order, the first bad one fails
\* the call.
ValidateNames ==
    /\ pc = "names"
    /\ LET bad == {i \in 1..NumSheets : ~validate_sheet_name(sheets[i].name)}
       IN  IF bad # {}
           THEN /\ pc' = "err"
                /\ error' = Some(ValidationError("name", CHOOSE i \in bad : \A j \in bad : i <= j))
           ELSE /\ pc' = "register"
                /\ error' = error
    /\ UNCHANGED <<sheets, num_threads, target, target_before, style_registry,
                   sheet_col_format_maps, sheet_cell_style_maps,
                   sheet_dxf_mappings, results, order, saved_error,
                   xml_and_hyperlinks, zipper, global_chart_id,
                   global_table_id, drawing_id, idx>>
    /\ UNCHANGED <<avars, cvars, rvars, gvars, lvars, svars, bvars>>

\* Lines 369-385: the cell style of every column that has a number format.
RECURSIVE RegisterColumnFormats(_, _, _)
RegisterColumnFormats(reg, formats, col) ==
    IF col > Len(formats) THEN [reg |-> reg, ok |-> TRUE, map |-> <<>>]
    ELSE IF ~IsSome(formats[col])
    THEN LET rest == RegisterColumnFormats(reg, formats, col + 1)
         IN  [rest EXCEPT !.map = <<NoneOpt>> \o @]
    ELSE LET After(r) ==
                 IF ~r.ok THEN [reg |-> r.reg, ok |-> FALSE, map |-> <<>>]
                 ELSE LET rest == RegisterColumnFormats(r.reg, formats, col + 1)
                      IN  [rest EXCEPT !.map = <<Some(r.id)>> \o @]
         IN  After(register_cell_style(reg,
                     [font |-> NoneOpt, fill |-> NoneOpt, border |-> NoneOpt,
                      alignment |-> NoneOpt, number_format |-> formats[col]]))

\* Lines 389-394: the per-cell styles; a later entry for a cell replaces an
\* earlier one.  The map is a set of [row, col, id].
RECURSIVE RegisterCellStyles(_, _, _)
RegisterCellStyles(reg, cell_styles, map) ==
    IF cell_styles = <<>> THEN [reg |-> reg, ok |-> TRUE, map |-> map]
    ELSE LET cs == Head(cell_styles)
             After(r) ==
                 IF ~r.ok THEN [reg |-> r.reg, ok |-> FALSE, map |-> map]
                 ELSE RegisterCellStyles(r.reg, Tail(cell_styles),
                         {e \in map : ~(e.row = cs.row /\ e.col = cs.col)}
                         \cup {[row |-> cs.row, col |-> cs.col, id |-> r.id]})
         IN  After(register_cell_style(reg, cs.style))

NeedsDxf(rule) == rule \in {"CellValue", "Top10"}

\* Lines 397-408: every CellValue / Top10 rule registers its style as a
\* cell style and as a differential format; the id is recorded under the
\* rule's index.  dxf_ids[i + 1] is the entry of index i.
RECURSIVE RegisterDxfs(_, _, _)
RegisterDxfs(reg, formats, i) ==
    IF i > Len(formats) THEN [reg |-> reg, ok |-> TRUE, dxf_ids |-> <<>>]
    ELSE IF ~NeedsDxf(formats[i].rule)
    THEN LET rest == RegisterDxfs(reg, formats, i + 1)
         IN  [rest EXCEPT !.dxf_ids = <<NoneOpt>> \o @]
    ELSE LET After(r) ==
                 IF ~r.ok THEN [reg |-> r.reg, ok |-> FALSE, dxf_ids |-> <<>>]
                 ELSE LET d    == register_dxf(r.reg, formats[i].style)
                          rest == RegisterDxfs(d.reg, formats, i + 1)
                      IN  [rest EXCEPT !.dxf_ids = <<Some(d.id)>> \o @]
         IN  After(register_cell_style(reg, formats[i].style))

\* Lines 367-410, one iteration: the styles of the next sheet are registered
\* in the shared registry.
RegisterSheet ==
    /\ pc = "register"
    /\ Len(sheet_dxf_mappings) < NumSheets
    /\ LET config == sheets[Len(sheet_dxf_mappings) + 1].config
           Store(c, s, d) ==
               IF ~c.ok \/ ~s.ok \/ ~d.ok
               THEN /\ pc' = "err"
                    /\ error' = Some(ValidationError("style", Len(sheet_dxf_mappings) + 1))
                    /\ style_registry' = IF ~c.ok THEN c.reg ELSE IF ~s.ok THEN s.reg ELSE d.reg
                    /\ UNCHANGED <<sheet_col_format_maps, sheet_cell_style_maps,
                                   sheet_dxf_mappings>>
               ELSE /\ style_registry' = d.reg
                    /\ sheet_col_format_maps' = Append(sheet_col_format_maps, c.map)
                    /\ sheet_cell_style_maps' = Append(sheet_cell_style_maps, s.map)
                    /\ sheet_dxf_mappings' = Append(sheet_dxf_mappings, d.dxf_ids)
                    /\ pc' = IF Len(sheet_dxf_mappings) + 1 = NumSheets
                             THEN "generate" ELSE "register"
                    /\ error' = error
           Dxfs(c, s)  == Store(c, s, RegisterDxfs(s.reg, config.conditional_formats, 1))
           Cells(c)    == Dxfs(c, RegisterCellStyles(c.reg, config.cell_styles, {}))
       IN  Cells(RegisterColumnFormats(style_registry, config.column_formats, 1))
    /\ UNCHANGED <<sheets, num_threads, target, target_before, results, order,
                   saved_error, xml_and_hyperlinks, zipper, global_chart_id,
                   global_table_id, drawing_id, idx>>
    /\ UNCHANGED <<avars, cvars, rvars, gvars, lvars, svars, bvars>>

\* Lines 423-438 and 445-460: the closure run for one sheet.
SheetTask(sheet_idx) ==
    LET config == sheets[sheet_idx].config
        g == generate_sheet_xml_from_arrow(sheets[sheet_idx].batches, config,
                                           sheet_dxf_mappings[sheet_idx])
    IN  IF ~g.ok
        THEN [ok |-> FALSE, xml |-> <<>>, hyperlinks |-> <<>>,
              err |-> Some(ValidationError("generate", sheet_idx))]
        ELSE [ok |-> TRUE, xml |-> g.xml,
              hyperlinks |-> [i \in 1..Len(config.hyperlinks) |->
                                 [url |-> config.hyperlinks[i], rid |-> i]],
              err |-> NoneOpt]

Parallel == num_threads > 1 /\ NumSheets > 1

\* The collected vector as it would be if results were pushed as the
\* tasks finish.
CollectResults_CompletionOrder(res, ord) == [i \in 1..Len(ord) |-> Unwrap(res[ord[i]])]

\* collect::<Result<Vec<_>, _>>() of an indexed iterator: the outputs are
\* placed by the index of their sheet, whatever the completion order.
CollectResults(res, ord) == [i \in 1..Len(ord) |-> Unwrap(res[i])]

\* The error slot as it would be if a later error replaced an earlier one.
SaveError_LastWins(saved, err) == err

\* The error slot of the parallel collect keeps the first error stored.
SaveError(saved, err) == IF IsSome(saved) THEN saved ELSE err

\* Lines 442-461: the sequential fallback runs the sheets in order and stops
\* at the first error.
GenerateSeq ==
    /\ pc = "generate"
    /\ ~Parallel
    /\ LET i == Len(order) + 1
           r == SheetTask(i)
       IN  /\ results' = [results EXCEPT ![i] = Some(r)]
           /\ order' = Append(order, i)
           /\ IF ~r.ok
              THEN /\ pc' = "err"
                   /\ error' = r.err
                   /\ UNCHANGED xml_and_hyperlinks
              ELSE IF i = NumSheets
              THEN /\ pc' = "assemble"
                   /\ xml_and_hyperlinks' = CollectResults(results', order')
                   /\ error' = error
              ELSE /\ pc' = "generate"
                   /\ UNCHANGED <<xml_and_hyperlinks, error>>
    /\ UNCHANGED <<sheets, num_threads, target, target_before, style_registry,
                   sheet_col_format_maps, sheet_cell_style_maps,
                   sheet_dxf_mappings, saved_error, zipper, global_chart_id,
                   global_table_id, drawing_id, idx>>
    /\ UNCHANGED <<avars, cvars, rvars, gvars, lvars, svars, bvars>>

\* Lines 414-417: the worker pool is built; building it can fail.
BuildPool ==
    /\ pc = "generate"
    /\ Parallel
    /\ \E built \in BOOLEAN :
          IF built
          THEN pc' = "parallel" /\ error' = error
          ELSE pc' = "err" /\ error' = Some(ValidationError("pool", 0))
    /\ UNCHANGED <<sheets, num_threads, target, target_before, style_registry,
                   sheet_col_format_maps, sheet_cell_style_maps,
                   sheet_dxf_mappings, results, order, saved_error,
                   xml_and_hyperlinks, zipper, global_chart_id,
                   global_table_id, drawing_id, idx>>
    /\ UNCHANGED <<avars, cvars, rvars, gvars, lvars, svars, bvars>>

\* Lines 419-438: the task of any sheet that has not run yet finishes; a
\* failing task stores its error unless one is stored already.
GeneratePar(i) ==
    /\ pc = "parallel"
    /\ ~IsSome(results[i])
    /\ LET r == SheetTask(i)
       IN  /\ results' = [results EXCEPT ![i] = Some(r)]
           /\ order' = Append(order, i)
           /\ saved_error' = IF r.ok THEN saved_error ELSE SaveError(saved_error, r.err)
    /\ UNCHANGED <<sheets, num_threads, target, target_before, pc, error,
                   style_registry, sheet_col_format_maps, sheet_cell_style_maps,
                   sheet_dxf_mappings, xml_and_hyperlinks, zipper,
                   global_chart_id, global_table_id, drawing_id, idx>>
    /\ UNCHANGED <<avars, cvars, rvars, gvars, lvars, svars, bvars>>

\* Lines 439-440: the fan-in.  With an error stored the tasks that have not
\* started are dropped and the call returns that error; otherwise every
\* task has finished and the outputs are collected.
Collect ==
    /\ pc = "parallel"
    /\ IF IsSome(saved_error)
       THEN /\ pc' = "err"
            /\ error' = saved_error
            /\ UNCHANGED xml_and_hyperlinks
       ELSE /\ Len(order) = NumSheets
            /\ pc' = "assemble"
            /\ xml_and_hyperlinks' = CollectResults(results, order)
            /\ error' = error
    /\ UNCHANGED <<sheets, num_threads, target, target_before, style_registry,
                   sheet_col_format_maps, sheet_cell_style_maps,
                   sheet_dxf_mappings, results, order, saved_error, zipper,
                   global_chart_id, global_table_id, drawing_id, idx>>
    /\ UNCHANGED <<avars, cvars, rvars, gvars, lvars, svars, bvars>>

\* add_static_files (lines 599-673): the fixed parts, in the order added.
add_static_files(sheet_names, registry, tables_count, charts_count, images_data) ==
    << Part(Path("content_types", 0, "xml"),
            generate_content_types_with_charts(sheet_names, tables_count,
                                               charts_count, images_data)),
       Part(Path("rels", 0, "rels"), <<>>),
       Part(Path("core", 0, "xml"), <<>>),
       Part(Path("app", 0, "xml"), sheet_names),
       Part(Path("workbook", 0, "xml"), generate_workbook(sheet_names)),
       Part(Path("workbook_rels", 0, "rels"), generate_workbook_rels(Len(sheet_names))),
       Part(Path("styles", 0, "xml"), generate_styles_xml_enhanced(registry)) >>

\* Lines 464-480: the container is created, the fixed parts are added and
\* the workbook-wide counters start at 1.
BeginAssembly ==
    /\ pc = "assemble"
    /\ zipper' = add_static_files(
                    [i \in 1..NumSheets |-> sheets[i].name],
                    style_registry,
                    [i \in 1..NumSheets |-> Len(sheets[i].config.tables)],
                    [i \in 1..NumSheets |-> Len(sheets[i].config.charts)],
                    [i \in 1..NumSheets |->
                        [images |-> sheets[i].config.images,
                         count |-> IF sheets[i].config.charts = <<>>
                                      /\ sheets[i].config.images = <<>>
                                   THEN 0 ELSE 1]])
    /\ global_chart_id' = 1
    /\ global_table_id' = 1
    /\ drawing_id' = 1
    /\ idx' = 1
    /\ pc' = "sheets"
    /\ UNCHANGED <<sheets, num_threads, target, target_before, error,
                   style_registry, sheet_col_format_maps, sheet_cell_style_maps,
                   sheet_dxf_mappings, results, order, saved_error,
                   xml_and_hyperlinks>>
    /\ UNCHANGED <<avars, cvars, rvars, gvars, lvars, svars, bvars>>

\* The number of the file written for the k-th table / chart of a sheet,
\* the counter holding `start` when the sheet's loop begins (lines 537-545
\* and 566-575: the counter is used, then incremented).
TablePartId(start, k) == start + (k - 1)

\* The chart file number as it would be if charts were numbered per sheet.
ChartPartId_PerSheet(start, k) == k

ChartPartId(start, k) == start + (k - 1)

\* The number in the media path of the k-th image of a sheet (line 582).
MediaPartId(k) == k

\* Lines 495-522: the rels file of a worksheet.
SheetRels(hyperlinks, tables, has_drawing, sheet_start_table_id, drawing) ==
    [i \in 1..Len(hyperlinks) |->
        Rel("rId", hyperlinks[i].rid, Path("external", 0, hyperlinks[i].url))]
    \o [i \in 1..Len(tables) |->
        Rel("rIdTable", i, Path("table", sheet_start_table_id + (i - 1), "xml"))]
    \o (IF has_drawing
        THEN <<Rel("rIdDraw", 1, Path("drawing", drawing, "xml"))>>
        ELSE <<>>)

\* Lines 482-590, one iteration of the assembly loop: the parts of sheet
\* idx, in the order added.
SheetParts(i, entry, name, config, chart_start, table_start, drawing) ==
    LET has_hyperlinks == entry.hyperlinks # <<>>
        has_tables == config.tables # <<>>
        has_charts == config.charts # <<>>
        has_images == config.images # <<>>
    IN  <<Part(Path("sheet", i, "xml"), entry.xml)>>
        \o (IF has_hyperlinks \/ has_tables \/ has_charts \/ has_images
            THEN <<Part(Path("sheet_rels", i, "rels"),
                        SheetRels(entry.hyperlinks, config.tables,
                                  has_charts \/ has_images, table_start, drawing))>>
            ELSE <<>>)
        \o [k \in 1..Len(config.tables) |->
               Part(Path("table", TablePartId(table_start, k), "xml"),
                    [table |-> config.tables[k], id |-> TablePartId(table_start, k)])]
        \o (IF has_charts \/ has_images
            THEN <<Part(Path("drawing", drawing, "xml"),
                        generate_drawing_xml_combined(config.charts, config.images)),
                   Part(Path("drawing_rels", drawing, "rels"),
                        generate_drawing_rels_combined(Len(config.charts), config.images))>>
                 \o [k \in 1..Len(config.charts) |->
                        Part(Path("chart", ChartPartId(chart_start, k), "xml"),
                             [chart |-> config.charts[k], sheet_name |-> name])]
                 \o [k \in 1..Len(config.images) |->
                        Part(Path("media", MediaPartId(k), config.images[k].extension),
                             config.images[k].image_data)]
            ELSE <<>>)

AssembleSheet ==
    /\ pc = "sheets"
    /\ LET config == sheets[idx].config
           has_drawing == config.charts # <<>> \/ config.images # <<>>
       IN  /\ zipper' = zipper \o SheetParts(idx, xml_and_hyperlinks[idx],
                                             sheets[idx].name, config,
                                             global_chart_id, global_table_id,
                                             drawing_id)
           /\ global_table_id' = global_table_id + Len(config.tables)
           /\ global_chart_id' = IF has_drawing
                                 THEN global_chart_id + Len(config.charts)
                                 ELSE global_chart_id
           /\ drawing_id' = IF has_drawing THEN drawing_id + 1 ELSE drawing_id
    /\ idx' = idx + 1
    /\ pc' = IF idx = NumSheets THEN "create" ELSE "sheets"
    /\ UNCHANGED <<sheets, num_threads, target, target_before, error,
                   style_registry, sheet_col_format_maps, sheet_cell_style_maps,
                   sheet_dxf_mappings, results, order, saved_error,
                   xml_and_hyperlinks>>
    /\ UNCHANGED <<avars, cvars, rvars, gvars, lvars, svars, bvars>>

\* write_zip_to_file (lines 675-682).  The target path holds "absent" (no
\* file), "old" (the complete previous file), "empty", "partial" or "new"
\* (the complete package of this call).

\* Line 676, File::create(filename): on success the file exists and is
\* truncated to length zero.
CreateFile ==
    /\ pc = "create"
    /\ \E created \in BOOLEAN :
          IF created
          THEN /\ target' = "empty"
               /\ pc' = "write"
               /\ error' = error
          ELSE /\ target' = target
               /\ pc' = "err"
               /\ error' = Some(IoError("create"))
    /\ UNCHANGED <<sheets, num_threads, target_before, style_registry,
                   sheet_col_format_maps, sheet_cell_style_maps,
                   sheet_dxf_mappings, results, order, saved_error,
                   xml_and_hyperlinks, zipper, global_chart_id,
                   global_table_id, drawing_id, idx>>
    /\ UNCHANGED <<avars, cvars, rvars, gvars, lvars, svars, bvars>>

\* Lines 677-678, zipper.write(&mut file): the archive is written straight
\* into the target file; the first bytes arrive ...
WriteZipProgress ==
    /\ pc = "write"
    /\ target = "empty"
    /\ target' = "partial"
    /\ UNCHANGED <<sheets, num_threads, target_before, pc, error,
                   style_registry, sheet_col_format_maps, sheet_cell_style_maps,
                   sheet_dxf_mappings, results, order, saved_error,
                   xml_and_hyperlinks, zipper, global_chart_id,
                   global_table_id, drawing_id, idx>>
    /\ UNCHANGED <<avars, cvars, rvars, gvars, lvars, svars, bvars>>

\* ... and the write either completes or fails where it is.
WriteZip ==
    /\ pc = "write"
    /\ \E written \in BOOLEAN :
          IF written
          THEN /\ target' = "new"
               /\ pc' = "flush"
               /\ error' = error
          ELSE /\ target' = target
               /\ pc' = "err"
               /\ error' = Some(ValidationError("zip", 0))
    /\ UNCHANGED <<sheets, num_threads, target_before, style_registry,
                   sheet_col_format_maps, sheet_cell_style_maps,
                   sheet_dxf_mappings, results, order, saved_error,
                   xml_and_hyperlinks, zipper, global_chart_id,
                   global_table_id, drawing_id, idx>>
    /\ UNCHANGED <<avars, cvars, rvars, gvars, lvars, svars, bvars>>

\* Line 679, file.flush(): std::fs::File keeps no user-space buffer, its
\* flush returns Ok(()).
Flush ==
    /\ pc = "flush"
    /\ pc' = "sync"
    /\ UNCHANGED <<sheets, num_threads, target, target_before, error,
                   style_registry, sheet_col_format_maps, sheet_cell_style_maps,
                   sheet_dxf_mappings, results, order, saved_error,
                   xml_and_hyperlinks, zipper, global_chart_id,
                   global_table_id, drawing_id, idx>>
    /\ UNCHANGED <<avars, cvars, rvars, gvars, lvars, svars, bvars>>

\* Lines 680-681, file.sync_all() and the return.
Sync ==
    /\ pc = "sync"
    /\ \E synced \in BOOLEAN :
          IF synced
          THEN pc' = "ok" /\ error' = error
          ELSE pc' = "err" /\ error' = Some(IoError("sync"))
    /\ UNCHANGED <<sheets, num_threads, target, target_before,
                   style_registry, sheet_col_format_maps, sheet_cell_style_maps,
                   sheet_dxf_mappings, results, order, saved_error,
                   xml_and_hyperlinks, zipper, global_chart_id,
                   global_table_id, drawing_id, idx>>
    /\ UNCHANGED <<avars, cvars, rvars, gvars, lvars, svars, bvars>>

\* ------------------------------------------------------------------------
\* writer.rs: the single-sheet entry points
\* ------------------------------------------------------------------------

\* StyleConfig::default, the fields the worksheet generators read.
DefaultStyleConfig ==
    [auto_filter |-> FALSE, freeze_rows |-> 0, freeze_cols |-> 0,
     styled_headers |-> FALSE, write_header_row |-> TRUE, column_widths |-> NoneOpt,
     auto_width |-> FALSE, merge_cells |-> <<>>, data_validations |-> <<>>,
     hyperlinks |-> <<>>, formulas |-> <<>>, conditional_formats |-> <<>>,
     tables |-> <<>>, charts |-> <<>>, images |-> <<>>, tab_color |-> NoneOpt,
     hidden_columns |-> {}, data_start_row |-> 0, header_content |-> <<>>]

\* types.rs SheetData::validate: the name, then the lengths of the columns.
validate(sheet) ==
    IF Len(sheet.name) > MaxSheetNameLen THEN FALSE
    ELSE IF \E i \in 1..Len(sheet.name) : sheet.name[i] \in InvalidSheetNameChars THEN FALSE
    ELSE IF sheet.columns = <<>> THEN TRUE
    ELSE \A c \in 1..Len(sheet.columns) :
            Len(sheet.columns[c].values) = Len(sheet.columns[1].values)

\* styles.rs generate_styles_xml, used when add_static_files gets no
\* registry: the styles of a new registry.
generate_styles_xml == generate_styles_xml_enhanced(NewRegistry)

\* xml.rs generate_drawing_xml: one anchor per chart, chart idx refers to
\* rIdChart{idx+1}.
generate_drawing_xml(charts) ==
    [k \in 1..Len(charts) |->
        [kind |-> "chart", of |-> charts[k], rid |-> [kind |-> "rIdChart", n |-> k]]]

\* What a single-sheet entry point leaves behind: the parts added to the
\* archive and the error returned.
Outcome(parts, err) == [zipper |-> parts, error |-> err]

\* writer.rs lines 15-35.  zip_failure is what write_zip_to_file returns.
write_single_sheet(sheet, zip_failure) ==
    IF ~validate(sheet) THEN Outcome(<<>>, Some(ValidationError("sheet", 1)))
    ELSE Outcome(add_static_files(<<sheet.name>>, NewRegistry, <<0>>, <<0>>, <<>>)
                 \o <<Part(Path("sheet", 1, "xml"),
                           generate_sheet_xml_from_dict(sheet.columns, DefaultStyleConfig))>>,
                 zip_failure)

\* writer.rs lines 37-94: the drawing is counted when there are charts or
\* images, its parts are added when there are charts.
write_single_sheet_with_config(sheet, config, zip_failure) ==
    IF ~validate(sheet) THEN Outcome(<<>>, Some(ValidationError("sheet", 1)))
    ELSE LET drawing_count == IF config.charts = <<>> /\ config.images = <<>> THEN 0 ELSE 1
         IN  Outcome(
                 add_static_files(<<sheet.name>>, NewRegistry, <<0>>,
                                  <<Len(config.charts)>>,
                                  <<[images |-> <<>>, count |-> drawing_count]>>)
                 \o <<Part(Path("sheet", 1, "xml"),
                           generate_sheet_xml_from_dict(sheet.columns, config))>>
                 \o (IF config.charts # <<>>
                     THEN <<Part(Path("drawing", 1, "xml"),
                                 generate_drawing_xml(config.charts)),
                            Part(Path("drawing_rels", 1, "rels"),
                                 generate_drawing_rels_combined(Len(config.charts),
                                                                config.images))>>
                          \o [k \in 1..Len(config.charts) |->
                                 Part(Path("chart", k, "xml"),
                                      [chart |-> config.charts[k],
                                       sheet_name |-> sheet.name])]
                          \o <<Part(Path("sheet_rels", 1, "rels"),
                                    <<Rel("rIdDraw", 1, Path("drawing", 1, "xml"))>>)>>
                     ELSE <<>>),
                 zip_failure)

\* Lines 268-274: a table that starts after row 1 gets its end row moved
\* down by one.
AdjustedTable(table) ==
    IF table.range.start_row > 1
    THEN [table EXCEPT !.range.end_row = @ + 1]
    ELSE table

\* Lines 236-339: the parts of the one sheet, in the order added.
SingleSheetParts(xml_data, sheet_name, config) ==
    LET hyperlinks_with_idx == [i \in 1..Len(config.hyperlinks) |->
                                   [url |-> config.hyperlinks[i], rid |-> i]]
        has_any_rels == \/ config.hyperlinks # <<>> \/ config.tables # <<>>
                        \/ config.charts # <<>> \/ config.images # <<>>
        has_drawing == config.charts # <<>> \/ config.images # <<>>
    IN  <<Part(Path("sheet", 1, "xml"), xml_data)>>
        \o (IF has_any_rels
            THEN <<Part(Path("sheet_rels", 1, "rels"),
                        [i \in 1..Len(hyperlinks_with_idx) |->
                            Rel("rId", hyperlinks_with_idx[i].rid,
                                Path("external", 0, hyperlinks_with_idx[i].url))]
                        \o [i \in 1..Len(config.tables) |->
                               Rel("rIdTable", i, Path("table", i, "xml"))]
                        \o (IF has_drawing
                            THEN <<Rel("rIdDraw", 1, Path("drawing", 1, "xml"))>>
                            ELSE <<>>))>>
            ELSE <<>>)
        \o [k \in 1..Len(config.tables) |->
               Part(Path("table", k, "xml"),
                    [table |-> AdjustedTable(config.tables[k]), id |-> k])]
        \o (IF has_drawing
            THEN <<Part(Path("drawing", 1, "xml"),
                        generate_drawing_xml_combined(config.charts, config.images)),
                   Part(Path("drawing_rels", 1, "rels"),
                        generate_drawing_rels_combined(Len(config.charts), config.images))>>
                 \o [k \in 1..Len(config.charts) |->
                        Part(Path("chart", k, "xml"),
                             [chart |-> config.charts[k], sheet_name |-> sheet_name])]
                 \o [k \in 1..Len(config.images) |->
                        Part(Path("media", k, config.images[k].extension),
                             config.images[k].image_data)]
            ELSE <<>>)

\* writer.rs lines 156-339.
write_single_sheet_arrow_with_config(batches, sheet_name, config, zip_failure) ==
    LET Package(d) ==
            IF ~d.ok THEN Outcome(<<>>, Some(ValidationError("style", 1)))
            ELSE LET static == add_static_files(
                                   <<sheet_name>>, d.reg, <<Len(config.tables)>>,
                                   <<Len(config.charts)>>,
                                   <<[images |-> config.images,
                                      count |-> IF config.charts = <<>>
                                                   /\ config.images = <<>>
                                                THEN 0 ELSE 1]>>)
                     g == generate_sheet_xml_from_arrow(batches, config, d.dxf_ids)
                 IN  IF ~g.ok
                     THEN Outcome(static, Some(ValidationError("generate", 1)))
                     ELSE Outcome(static \o SingleSheetParts(g.xml, sheet_name, config),
                                  zip_failure)
        Dxfs(s) ==
            IF ~s.ok THEN Outcome(<<>>, Some(ValidationError("style", 1)))
            ELSE IF config.conditional_formats # <<>>
            THEN Package(RegisterDxfs(s.reg, config.conditional_formats, 1))
            ELSE Package([reg |-> s.reg, ok |-> TRUE, dxf_ids |-> <<>>])
        Cells(c) ==
            IF ~c.ok THEN Outcome(<<>>, Some(ValidationError("style", 1)))
            ELSE Dxfs(RegisterCellStyles(c.reg, config.cell_styles, {}))
    IN  IF ~validate_sheet_name(sheet_name)
        THEN Outcome(<<>>, Some(ValidationError("name", 1)))
        ELSE Cells(RegisterColumnFormats(NewRegistry, config.column_formats, 1))

\* write_zip_to_file (lines 675-682) returns Ok, or the error of
\* File::create, of the archive write or of sync_all.
ZipFailures ==
    {NoneOpt, Some(IoError("create")), Some(ValidationError("zip", 0)),
     Some(IoError("sync"))}

\* The call returns: the archive it built and its Result are recorded.
Return(outcome) ==
    /\ single_zipper' = outcome.zipper
    /\ single_error' = outcome.error
    /\ spc' = "done"
    /\ UNCHANGED single_call
    /\ UNCHANGED <<wvars, avars, cvars, rvars, gvars, lvars, bvars>>

WriteSingleSheet ==
    /\ spc = "call"
    /\ single_call.entry = "write_single_sheet"
    /\ \E zip_failure \in ZipFailures :
          Return(write_single_sheet(single_call.sheet, zip_failure))

WriteSingleSheetWithConfig ==
    /\ spc = "call"
    /\ single_call.entry = "write_single_sheet_with_config"
    /\ \E zip_failure \in ZipFailures :
          Return(write_single_sheet_with_config(single_call.sheet, single_call.config,
                                                zip_failure))

WriteSingleSheetArrowWithConfig ==
    /\ spc = "call"
    /\ single_call.entry = "write_single_sheet_arrow_with_config"
    /\ \E zip_failure \in ZipFailures :
          Return(write_single_sheet_arrow_with_config(
                     single_call.batches, single_call.sheet_name, single_call.config,
                     zip_failure))

\* ------------------------------------------------------------------------
\* validation.rs: write_file_atomic
\* ------------------------------------------------------------------------

\* The filename and parent-directory checks made before anything is
\* touched.
CheckFilename ==
    /\ apc = "check"
    /\ IF filename = ""
       THEN apc' = "err" /\ aerror' = Some(ValidationError("Filename cannot be empty", 0))
       ELSE IF ~parent_exists
       THEN apc' = "err" /\ aerror' = Some(ValidationError("Directory does not exist", 0))
       ELSE apc' = "create" /\ aerror' = aerror
    /\ UNCHANGED <<filename, parent_exists, write_fn, dest, dest_before, temp_path,
                   temp_created, chunks_written, write_result>>
    /\ UNCHANGED <<wvars, cvars, rvars, gvars, lvars, svars, bvars>>

\* fs::File::create(temp_path): it truncates whatever is at temp_path, or
\* fails and ends the closure.
CreateTemp ==
    /\ apc = "create"
    /\ \E created \in BOOLEAN :
          IF created
          THEN /\ temp_path' = "empty"
               /\ temp_created' = TRUE
               /\ write_result' = write_result
               /\ apc' = "write"
          ELSE /\ write_result' = Some([ok |-> FALSE, err |-> IoError("create")])
               /\ apc' = "handle"
               /\ UNCHANGED <<temp_path, temp_created>>
    /\ UNCHANGED <<filename, parent_exists, write_fn, dest, dest_before,
                   chunks_written, aerror>>
    /\ UNCHANGED <<wvars, cvars, rvars, gvars, lvars, svars, bvars>>

\* write_fn(&mut temp_file): one write of the callback, or its failure.
WriteFn ==
    /\ apc = "write"
    /\ IF chunks_written = write_fn.writes
       THEN /\ apc' = "flush"
            /\ UNCHANGED <<temp_path, chunks_written, write_result>>
       ELSE \E wrote \in BOOLEAN :
               IF wrote
               THEN /\ chunks_written' = chunks_written + 1
                    /\ temp_path' = IF chunks_written + 1 = write_fn.writes
                                    THEN "new" ELSE "partial"
                    /\ apc' = apc
                    /\ write_result' = write_result
               ELSE /\ write_result' = Some([ok |-> FALSE, err |-> IoError("write_fn")])
                    /\ apc' = "handle"
                    /\ UNCHANGED <<temp_path, chunks_written>>
    /\ UNCHANGED <<filename, parent_exists, write_fn, dest, dest_before,
                   temp_created, aerror>>
    /\ UNCHANGED <<wvars, cvars, rvars, gvars, lvars, svars, bvars>>

\* temp_file.flush(): File keeps no buffer of its own, it returns Ok.
FlushTemp ==
    /\ apc = "flush"
    /\ apc' = "sync"
    /\ UNCHANGED <<filename, parent_exists, write_fn, dest, dest_before, temp_path,
                   temp_created, chunks_written, write_result, aerror>>
    /\ UNCHANGED <<wvars, cvars, rvars, gvars, lvars, svars, bvars>>

\* temp_file.sync_all(), the last step of the closure.
SyncTemp ==
    /\ apc = "sync"
    /\ \E synced \in BOOLEAN :
          write_result' = IF synced THEN Some([ok |-> TRUE, err |-> IoError("")])
                          ELSE Some([ok |-> FALSE, err |-> IoError("sync_all")])
    /\ apc' = "handle"
    /\ UNCHANGED <<filename, parent_exists, write_fn, dest, dest_before, temp_path,
                   temp_created, chunks_written, aerror>>
    /\ UNCHANGED <<wvars, cvars, rvars, gvars, lvars, svars, bvars>>

\* The Ok arm of the match: fs::rename(temp_path, path)?, which returns the
\* error of a failed rename at once.
RenameTemp ==
    /\ apc = "handle"
    /\ Unwrap(write_result).ok
    /\ \E renamed \in BOOLEAN :
          IF renamed
          THEN /\ dest' = temp_path
               /\ temp_path' = "absent"
               /\ apc' = "ok"
               /\ aerror' = aerror
          ELSE /\ UNCHANGED <<temp_path, dest>>
               /\ apc' = "err"
               /\ aerror' = Some(IoError("rename"))
    /\ UNCHANGED <<filename, parent_exists, write_fn, dest_before,
                   temp_created, chunks_written, write_result>>
    /\ UNCHANGED <<wvars, cvars, rvars, gvars, lvars, svars, bvars>>

\* The Err arm of the match: fs::remove_file(temp_path), its own outcome
\* ignored, and the error of the closure returned.
RemoveTemp ==
    /\ apc = "handle"
    /\ ~Unwrap(write_result).ok
    /\ temp_path' = "absent"
    /\ apc' = "err"
    /\ aerror' = Some(Unwrap(write_result).err)
    /\ UNCHANGED <<filename, parent_exists, write_fn, dest, dest_before,
                   temp_created, chunks_written, write_result>>
    /\ UNCHANGED <<wvars, cvars, rvars, gvars, lvars, svars, bvars>>

\* ------------------------------------------------------------------------
\* validation.rs: a call of validate_style_config
\* ------------------------------------------------------------------------

\* The call; the two HashMap scans report any one of the bad entries.
ValidateStyleConfig ==
    /\ vpc = "call"
    /\ \E rh \in (IF IsSome(style_config.row_heights)
                  THEN validate_row_heights(Unwrap(style_config.row_heights))
                  ELSE {NoneOpt}),
          cw \in (IF IsSome(style_config.column_widths)
                  THEN validate_column_widths(Unwrap(style_config.column_widths))
                  ELSE {NoneOpt}) :
          validation_result' =
              Some(validate_style_config(style_config, data_rows, data_cols, rh, cw))
    /\ vpc' = "returned"
    /\ UNCHANGED <<style_config, data_rows, data_cols, to_error_result>>
    /\ UNCHANGED <<wvars, avars, rvars, gvars, lvars, svars, bvars>>

\* The ValidationResult of the call is turned into a Result.
ToError ==
    /\ vpc = "returned"
    /\ to_error_result' = Some(to_error(Unwrap(validation_result)))
    /\ vpc' = "converted"
    /\ UNCHANGED <<style_config, data_rows, data_cols, validation_result>>
    /\ UNCHANGED <<wvars, avars, rvars, gvars, lvars, svars, bvars>>

\* ------------------------------------------------------------------------
\* styles.rs: calls on one StyleRegistry
\* ------------------------------------------------------------------------

\* One more call is recorded: the method, its argument, whether it returned
\* Ok, the id it returned and the registry after the call.
Registered(op, arg, ok, id, reg) ==
    /\ own_registry' = reg
    /\ registrations' = Append(registrations,
                               [op |-> op, arg |-> arg, ok |-> ok, id |-> id,
                                after |-> reg])

\* StyleRegistry::get_or_add_font
GetOrAddFont(font) ==
    /\ Len(registrations) < MaxRegistrations
    /\ LET r == get_or_add(own_registry.fonts, font)
       IN  Registered("font", font, TRUE, r.id, [own_registry EXCEPT !.fonts = r.list])
    /\ UNCHANGED <<wvars, avars, cvars, gvars, lvars, svars, bvars>>

\* StyleRegistry::get_or_add_fill
GetOrAddFill(fill) ==
    /\ Len(registrations) < MaxRegistrations
    /\ LET r == get_or_add(own_registry.fills, fill)
       IN  Registered("fill", fill, TRUE, r.id, [own_registry EXCEPT !.fills = r.list])
    /\ UNCHANGED <<wvars, avars, cvars, gvars, lvars, svars, bvars>>

\* StyleRegistry::get_or_add_border
GetOrAddBorder(border) ==
    /\ Len(registrations) < MaxRegistrations
    /\ LET r == get_or_add(own_registry.borders, border)
       IN  Registered("border", border, TRUE, r.id,
                      [own_registry EXCEPT !.borders = r.list])
    /\ UNCHANGED <<wvars, avars, cvars, gvars, lvars, svars, bvars>>

\* StyleRegistry::get_or_add_num_fmt
GetOrAddNumFmt(fmt) ==
    /\ Len(registrations) < MaxRegistrations
    /\ LET r == get_or_add_num_fmt(own_registry, fmt)
       IN  Registered("num_fmt", fmt, r.ok, r.id, r.reg)
    /\ UNCHANGED <<wvars, avars, cvars, gvars, lvars, svars, bvars>>

\* StyleRegistry::register_cell_style
RegisterCellStyle(style) ==
    /\ Len(registrations) < MaxRegistrations
    /\ LET r == register_cell_style(own_registry, style)
       IN  Registered("cell_style", style, r.ok, r.id, r.reg)
    /\ UNCHANGED <<wvars, avars, cvars, gvars, lvars, svars, bvars>>

\* StyleRegistry::register_dxf
RegisterDxf(style) ==
    /\ Len(registrations) < MaxRegistrations
    /\ LET r == register_dxf(own_registry, style)
       IN  Registered("dxf", style, TRUE, r.id, r.reg)
    /\ UNCHANGED <<wvars, avars, cvars, gvars, lvars, svars, bvars>>

\* ------------------------------------------------------------------------
\* xml.rs: a call of write_col_letter
\* ------------------------------------------------------------------------

\* The caller passes a zeroed [u8; 4]; the first len bytes are overwritten
\* and len is returned.
WriteColLetter ==
    /\ lpc = "call"
    /\ LET letters == write_col_letter(letter_col)
       IN  /\ letter_buf' = [i \in 1..4 |-> IF i <= Len(letters) THEN letters[i]
                                             ELSE letter_buf[i]]
           /\ letter_len' = Len(letters)
    /\ lpc' = "done"
    /\ UNCHANGED letter_col
    /\ UNCHANGED <<wvars, avars, cvars, rvars, gvars, svars, bvars>>

\* ------------------------------------------------------------------------
\* xml.rs: a call of the workbook generators
\* ------------------------------------------------------------------------

\* add_static_files passes the same slice of names to both: generate_workbook
\* gets the names, generate_workbook_rels their number.
GenerateWorkbook ==
    /\ bpc = "call"
    /\ book_xml' = generate_workbook(book_names)
    /\ book_rels' = generate_workbook_rels(Len(book_names))
    /\ bpc' = "done"
    /\ UNCHANGED book_names
    /\ UNCHANGED <<wvars, avars, cvars, rvars, gvars, lvars, svars>>

\* ------------------------------------------------------------------------
\* xml.rs: calls of the worksheet generators
\* ------------------------------------------------------------------------

\* generate_sheet_xml_from_arrow
GenerateSheetArrow ==
    /\ gpc = "call"
    /\ gen_result' = generate_sheet_xml_from_arrow_doc(
                         gen_arrow, gen_config, gen_col_format_map, gen_cell_style_map)
    /\ gpc' = "arrow"
    /\ UNCHANGED <<gen_arrow, gen_sheet, gen_config, gen_col_format_map,
                   gen_cell_style_map>>
    /\ UNCHANGED <<wvars, avars, cvars, rvars, lvars, svars, bvars>>

\* generate_sheet_xml_from_dict
GenerateSheetDict ==
    /\ gpc = "call"
    /\ gen_result' = generate_sheet_xml_from_dict(gen_sheet, gen_config)
    /\ gpc' = "dict"
    /\ UNCHANGED <<gen_arrow, gen_sheet, gen_config, gen_col_format_map,
                   gen_cell_style_map>>
    /\ UNCHANGED <<wvars, avars, cvars, rvars, lvars, svars, bvars>>

\* ------------------------------------------------------------------------
\* The calls that are modelled
\* ------------------------------------------------------------------------

GoodName == <<"D", "a", "t", "a">>

BadName == <<"Q", "1", "/", "Q", "2">>

Exts == {"png", "jpg"}

NoStyle == [font |-> NoneOpt, fill |-> NoneOpt, border |-> NoneOpt,
            alignment |-> NoneOpt, number_format |-> NoneOpt]

StyleRed == [NoStyle EXCEPT
                !.fill = Some([pattern_type |-> "Solid",
                               fg_color |-> Some("FFFF0000"), bg_color |-> NoneOpt])]

StyleBold == [NoStyle EXCEPT !.font = Some([DefaultFont EXCEPT !.bold = TRUE])]

\* A style whose number format is a name typed where a code was meant.
StyleBadFormat == [NoStyle EXCEPT !.number_format = Some(Custom(<<"c", "a", "s", "h">>))]

CondFormat(rule, style, priority) ==
    [rule |-> rule, style |-> style, priority |-> priority,
     start_row |-> 1, start_col |-> 0, end_row |-> 1, end_col |-> 0]

\* The conditional formats a sheet may carry: the rules that take a
\* differential format with either style, the others with no style.
CondFormatChoices ==
    {[rule |-> r, style |-> st] : r \in {"CellValue", "Top10"}, st \in {StyleRed, StyleBold}}
    \cup {[rule |-> r, style |-> NoStyle] : r \in {"ColorScale", "DataBar"}}

EmptyConfig ==
    [charts |-> <<>>, tables |-> <<>>, images |-> <<>>, hyperlinks |-> <<>>,
     column_formats |-> <<>>, cell_styles |-> <<>>, conditional_formats |-> <<>>,
     merge_cells |-> <<>>, formulas |-> <<>>, row_heights |-> NoneOpt,
     column_widths |-> NoneOpt, freeze_rows |-> 0, freeze_cols |-> 0]

\* Sheet s of a call: its batches, its name and its configuration.
Sheet(s, name, bad_data, config) ==
    [batches |-> [id |-> s, bad_data |-> bad_data], name |-> name, config |-> config]

\* Chart / table k of sheet s, and image k of sheet s with its own bytes.
Object(s, k) == [sheet |-> s, pos |-> k]

Objects(s, n) == [k \in 1..n |-> Object(s, k)]

Images(s, exts) ==
    [k \in 1..Len(exts) |-> [extension |-> exts[k], image_data |-> Object(s, k)]]

\* No multi-sheet write is made.
NoWrite ==
    /\ sheets = <<>>
    /\ num_threads = 1
    /\ target_before = "absent"
    /\ target = "absent"
    /\ pc = "none"
    /\ error = NoneOpt
    /\ style_registry = NewRegistry
    /\ sheet_col_format_maps = <<>>
    /\ sheet_cell_style_maps = <<>>
    /\ sheet_dxf_mappings = <<>>
    /\ results = <<>>
    /\ order = <<>>
    /\ saved_error = NoneOpt
    /\ xml_and_hyperlinks = <<>>
    /\ zipper = <<>>
    /\ global_chart_id = 1
    /\ global_table_id = 1
    /\ drawing_id = 1
    /\ idx = 1

\* No call of write_file_atomic is made.
NoAtomicWrite ==
    /\ filename = ""
    /\ parent_exists = TRUE
    /\ write_fn = [writes |-> 0]
    /\ dest_before = "absent"
    /\ dest = "absent"
    /\ temp_path = "absent"
    /\ temp_created = FALSE
    /\ chunks_written = 0
    /\ write_result = NoneOpt
    /\ apc = "none"
    /\ aerror = NoneOpt

\* No call of validate_style_config is made.
NoValidation ==
    /\ style_config = EmptyConfig
    /\ data_rows = 0
    /\ data_cols = 0
    /\ validation_result = NoneOpt
    /\ to_error_result = NoneOpt
    /\ vpc = "none"

\* No call is made on a standalone registry.
NoRegistration ==
    /\ own_registry = NewRegistry
    /\ registrations = <<>>

\* The value of gen_result before a generator has returned.
NoDocument ==
    [ok |-> TRUE, elements |-> <<>>, rows |-> <<>>,
     dimension |-> RangeRef(write_cell_ref(0, 1), NoneOpt), autoFilter |-> NoneOpt]

\* No worksheet generator is called.
NoGeneration ==
    /\ gen_arrow = [schema |-> <<>>, batches |-> <<>>]
    /\ gen_sheet = <<>>
    /\ gen_config = DefaultStyleConfig
    /\ gen_col_format_map = {}
    /\ gen_cell_style_map = {}
    /\ gen_result = NoDocument
    /\ gpc = "none"

\* write_col_letter is not called.
NoLetters ==
    /\ letter_col = 0
    /\ letter_buf = <<"", "", "", "">>
    /\ letter_len = 0
    /\ lpc = "none"

\* No single-sheet entry point is called.
NoSingleWrite ==
    /\ single_call = NoneOpt
    /\ single_zipper = <<>>
    /\ single_error = NoneOpt
    /\ spc = "none"

\* The workbook generators are not called.
NoWorkbook ==
    /\ book_names = <<>>
    /\ book_xml = <<>>
    /\ book_rels = <<>>
    /\ bpc = "none"

\* The state of a call that has not started.
CallStart(n) ==
    /\ pc = "names"
    /\ error = NoneOpt
    /\ target = target_before
    /\ style_registry = NewRegistry
    /\ sheet_col_format_maps = <<>>
    /\ sheet_cell_style_maps = <<>>
    /\ sheet_dxf_mappings = <<>>
    /\ results = [i \in 1..n |-> NoneOpt]
    /\ order = <<>>
    /\ saved_error = NoneOpt
    /\ xml_and_hyperlinks = <<>>
    /\ zipper = <<>>
    /\ global_chart_id = 1
    /\ global_table_id = 1
    /\ drawing_id = 1
    /\ idx = 1

\* Calls that differ in names, in data that cannot be converted, in styles
\* that cannot be registered, in the pool size and in what the target path
\* holds.
Init ==
    /\ num_threads \in 1..MaxThreads
    /\ target_before \in {"absent", "old"}
    /\ \E n \in 1..MaxParSheets :
          /\ \E names \in [1..n -> {GoodName, BadName}],
                bad \in [1..n -> BOOLEAN],
                fmts \in [1..n -> {<<>>, <<CondFormat("CellValue", StyleBadFormat, 1)>>}] :
                sheets = [s \in 1..n |->
                             Sheet(s, names[s], bad[s],
                                   [EmptyConfig EXCEPT !.conditional_formats = fmts[s]])]
          /\ CallStart(n)
    /\ NoAtomicWrite
    /\ NoValidation
    /\ NoRegistration
    /\ NoLetters
    /\ NoSingleWrite
    /\ NoWorkbook
    /\ NoGeneration

Next ==
    \/ ValidateNames
    \/ RegisterSheet
    \/ GenerateSeq
    \/ BuildPool
    \/ \E i \in 1..NumSheets : GeneratePar(i)
    \/ Collect
    \/ BeginAssembly
    \/ AssembleSheet
    \/ CreateFile
    \/ WriteZipProgress
    \/ WriteZip
    \/ Flush
    \/ Sync

Spec == Init /\ [][Next]_vars

\* Calls that differ in the charts and tables of their sheets, followed
\* until the package is assembled.
InitParts ==
    /\ num_threads = 1
    /\ target_before = "absent"
    /\ \E n \in 1..MaxSheets :
          /\ \E c \in [1..n -> 0..MaxCharts],
                t \in [1..n -> 0..MaxTables] :
                sheets = [s \in 1..n |->
                             Sheet(s, GoodName, FALSE,
                                   [EmptyConfig EXCEPT !.charts = Objects(s, c[s]),
                                                       !.tables = Objects(s, t[s])])]
          /\ CallStart(n)
    /\ NoAtomicWrite
    /\ NoValidation
    /\ NoRegistration
    /\ NoLetters
    /\ NoSingleWrite
    /\ NoWorkbook
    /\ NoGeneration

NextParts ==
    \/ ValidateNames
    \/ RegisterSheet
    \/ GenerateSeq
    \/ BeginAssembly
    \/ AssembleSheet

SpecParts == InitParts /\ [][NextParts]_vars

\* Calls that differ in the images and charts of their sheets, followed
\* until the package is assembled.
InitMedia ==
    /\ num_threads = 1
    /\ target_before = "absent"
    /\ \E n \in 1..MaxMediaSheets :
          /\ \E c \in [1..n -> 0..1],
                im \in [1..n -> SeqsUpTo(Exts, MaxImages)] :
                sheets = [s \in 1..n |->
                             Sheet(s, GoodName, FALSE,
                                   [EmptyConfig EXCEPT !.charts = Objects(s, c[s]),
                                                       !.images = Images(s, im[s])])]
          /\ CallStart(n)
    /\ NoAtomicWrite
    /\ NoValidation
    /\ NoRegistration
    /\ NoLetters
    /\ NoSingleWrite
    /\ NoWorkbook
    /\ NoGeneration

SpecMedia == InitMedia /\ [][NextParts]_vars

\* Calls that differ in the conditional formats of their sheets, at most
\* MaxRules rules in the workbook, followed until the package is
\* assembled.  The rules are drawn as one sequence and cut into sheets.
InitDxf ==
    /\ num_threads = 1
    /\ target_before = "absent"
    /\ \E n \in 1..MaxDxfSheets :
          /\ \E all \in SeqsUpTo(CondFormatChoices, MaxRules) :
             \E cut \in [0..n -> 0..Len(all)] :
                /\ cut[0] = 0
                /\ cut[n] = Len(all)
                /\ \A s \in 1..n : cut[s - 1] <= cut[s]
                /\ sheets = [s \in 1..n |->
                                Sheet(s, GoodName, FALSE,
                                      [EmptyConfig EXCEPT !.conditional_formats =
                                          [i \in 1..(cut[s] - cut[s - 1]) |->
                                              CondFormat(all[cut[s - 1] + i].rule,
                                                         all[cut[s - 1] + i].style, i)]])]
          /\ CallStart(n)
    /\ NoAtomicWrite
    /\ NoValidation
    /\ NoRegistration
    /\ NoLetters
    /\ NoSingleWrite
    /\ NoWorkbook
    /\ NoGeneration

SpecDxf == InitDxf /\ [][NextParts]_vars

\* Calls of write_file_atomic that differ in the filename, in whether its
\* directory exists, in what the target and the temporary path hold and in
\* the number of writes the callback makes.
InitAtomic ==
    /\ filename \in {"", "out.xlsx"}
    /\ parent_exists \in BOOLEAN
    /\ write_fn \in [writes : 0..MaxWrites]
    /\ dest_before \in {"absent", "old"}
    /\ dest = dest_before
    /\ temp_path \in {"absent", "stale"}
    /\ temp_created = FALSE
    /\ chunks_written = 0
    /\ write_result = NoneOpt
    /\ apc = "check"
    /\ aerror = NoneOpt
    /\ NoWrite
    /\ NoValidation
    /\ NoRegistration
    /\ NoLetters
    /\ NoSingleWrite
    /\ NoWorkbook
    /\ NoGeneration

NextAtomic ==
    \/ CheckFilename
    \/ CreateTemp
    \/ WriteFn
    \/ FlushTemp
    \/ SyncTemp
    \/ RenameTemp
    \/ RemoveTemp

SpecAtomic == InitAtomic /\ [][NextAtomic]_vars

\* Merge ranges: MergeA, MergeB and MergeF overlap pairwise, MergeE has
\* both its rows and its columns the wrong way round.
MergeRange(sr, sc, er, ec) ==
    [start_row |-> sr, start_col |-> sc, end_row |-> er, end_col |-> ec]

MergeA == MergeRange(1, 0, 2, 1)

MergeB == MergeRange(2, 1, 3, 2)

MergeF == MergeRange(1, 1, 3, 1)

MergeE == MergeRange(3, 2, 1, 0)

\* A chart whose data range ends beyond the data of the sheet.
ChartOutOfRange ==
    [data_range |-> MergeRange(1, 0, 50, 1), category_col |-> NoneOpt]

\* Configurations that differ in their merges, row heights, conditional
\* format priorities and charts, validated against a sheet of 10 rows and
\* 4 columns.
InitValidate ==
    /\ data_rows = 10
    /\ data_cols = 4
    /\ \E merges \in SeqsUpTo({MergeA, MergeB, MergeF, MergeE}, MaxMerges),
          heights \in {NoneOpt} \cup
                      {Some(h) : h \in UNION {[rows -> {200, 5000}] :
                                                 rows \in SUBSET {1, 2}}},
          priorities \in SeqsUpTo({1, 2}, MaxFormats),
          charts \in {<<>>, <<ChartOutOfRange>>} :
          style_config =
              [EmptyConfig EXCEPT
                  !.merge_cells = merges,
                  !.row_heights = heights,
                  !.conditional_formats =
                      [i \in 1..Len(priorities) |->
                          CondFormat("ColorScale", NoStyle, priorities[i])],
                  !.charts = charts]
    /\ validation_result = NoneOpt
    /\ to_error_result = NoneOpt
    /\ vpc = "call"
    /\ NoWrite
    /\ NoAtomicWrite
    /\ NoRegistration
    /\ NoLetters
    /\ NoSingleWrite
    /\ NoWorkbook
    /\ NoGeneration

NextValidate == ValidateStyleConfig

SpecValidate == InitValidate /\ [][NextValidate]_vars

\* Hyperlinks and formulas: a formula on the cell of LinkA, links and
\* formulas with nothing in them.
LinkA == [row |-> 1, col |-> 0, url |-> <<"u">>]

LinkEmpty == [row |-> 2, col |-> 0, url |-> <<>>]

FormulaOnLinkA == [row |-> 1, col |-> 0, formula |-> <<"f">>]

FormulaB == [row |-> 3, col |-> 1, formula |-> <<"f">>]

FormulaEmpty == [row |-> 4, col |-> 0, formula |-> <<>>]

\* Configurations that differ in their hyperlinks, formulas and merges,
\* validated and then converted with to_error.
InitReport ==
    /\ data_rows = 10
    /\ data_cols = 4
    /\ \E links \in SeqsUpTo({LinkA, LinkEmpty}, MaxLinks),
          formulas \in SeqsUpTo({FormulaOnLinkA, FormulaB, FormulaEmpty}, MaxLinks),
          merges \in {<<>>, <<MergeE>>, <<MergeA, MergeB>>} :
          style_config =
              [EmptyConfig EXCEPT
                  !.hyperlinks = links,
                  !.formulas = formulas,
                  !.merge_cells = merges]
    /\ validation_result = NoneOpt
    /\ to_error_result = NoneOpt
    /\ vpc = "call"
    /\ NoWrite
    /\ NoAtomicWrite
    /\ NoRegistration
    /\ NoLetters
    /\ NoSingleWrite
    /\ NoWorkbook
    /\ NoGeneration

NextReport ==
    \/ ValidateStyleConfig
    \/ ToError

SpecReport == InitReport /\ [][NextReport]_vars

\* Fonts, fills and borders a caller may pass: one that equals a pre-seeded
\* default and one that does not.
FontItalic == [DefaultFont EXCEPT !.italic = TRUE]

FillYellow == [pattern_type |-> "Solid", fg_color |-> Some("FFFFFF00"),
               bg_color |-> NoneOpt]

BorderThin == [left |-> Some([style |-> "Thin", color |-> NoneOpt]),
               right |-> NoneOpt, top |-> NoneOpt, bottom |-> NoneOpt]

\* Format codes: two format codes, a name, the empty code and a date code
\* whose letters are separated by a space.
CodeDecimal == <<"0", ".", "0">>

CodeHash == <<"#">>

CodeName == <<"c", "a", "s", "h">>

CodeDayMonth == <<"d", " ", "m">>

NumFmtPool ==
    {Builtin("Integer"), Custom(CodeDecimal), Custom(CodeHash), Custom(CodeName),
     Custom(<<>>), Custom(CodeDayMonth)}

\* Cell styles: no component, the default font spelled out, a fill, a
\* custom number format, an italic font with a rejected number format, and
\* a border.
StyleDefaultFont == [NoStyle EXCEPT !.font = Some(DefaultFont)]

StyleDecimal == [NoStyle EXCEPT !.number_format = Some(Custom(CodeDecimal))]

StyleItalicBadFormat == [StyleBadFormat EXCEPT !.font = Some(FontItalic)]

StyleBordered == [NoStyle EXCEPT !.border = Some(BorderThin)]

CellStylePool == {NoStyle, StyleDefaultFont, StyleRed, StyleDecimal,
                  StyleItalicBadFormat,
                  StyleBordered}

\* A new registry, on which any of its methods is called in any order.
InitRegistry ==
    /\ own_registry = NewRegistry
    /\ registrations = <<>>
    /\ NoWrite
    /\ NoAtomicWrite
    /\ NoValidation
    /\ NoGeneration
    /\ NoLetters
    /\ NoSingleWrite
    /\ NoWorkbook

NextRegistry ==
    \/ \E font \in {DefaultFont, FontItalic} : GetOrAddFont(font)
    \/ \E fill \in {DefaultFills[2], FillYellow} : GetOrAddFill(fill)
    \/ \E border \in {DefaultBorders[1], BorderThin} : GetOrAddBorder(border)
    \/ \E fmt \in NumFmtPool : GetOrAddNumFmt(fmt)
    \/ \E style \in CellStylePool : RegisterCellStyle(style)
    \/ \E style \in {StyleRed, StyleBold} : RegisterDxf(style)

SpecRegistry == InitRegistry /\ [][NextRegistry]_vars

\* A generator call before it returns.
GenerationStart ==
    /\ gen_result = NoDocument
    /\ gpc = "call"
    /\ NoWrite
    /\ NoAtomicWrite
    /\ NoValidation
    /\ NoRegistration
    /\ NoLetters
    /\ NoSingleWrite
    /\ NoWorkbook

NextSheet ==
    \/ GenerateSheetArrow
    \/ GenerateSheetDict

\* Values of an Arrow column and of a dict column.
Utf8(text) == [data_type |-> "Utf8", null |-> FALSE, value |-> text]

Finite(whole, tenths) == [class |-> "finite", whole |-> whole, tenths |-> tenths]

NonFinite(class) == [class |-> class, whole |-> 0, tenths |-> 0]

\* The f64 values a numeric column may hold.
Numbers == <<Finite(1, 5), Finite(3, 0), Finite(0, 0),
             NonFinite("nan"), NonFinite("inf"), NonFinite("neg_inf")>>

ADate == [days |-> 45000, tenths |-> 5]

\* One text column of nrows rows, cut into batches of the given sizes.
TextColumns(ncols, sizes) ==
    [schema |-> [c \in 1..ncols |-> "h"],
     batches |-> [b \in 1..Len(sizes) |->
                     [r \in 1..sizes[b] |-> [c \in 1..ncols |-> Utf8("x")]]]]

DictColumns(ncols, nrows) ==
    [c \in 1..ncols |->
        [header |-> "h",
         values |-> [r \in 1..nrows |-> [kind |-> "String", value |-> "x"]]]]

\* A table of two columns that starts at the given row.
TableAt(start_row) == [range |-> MergeRange(start_row, 0, start_row + 2, 1)]

\* Worksheets whose configuration switches each optional element on or
\* off, over no rows or some rows, with no table, a table over all the data
\* or a table over one column.
InitOrder ==
    /\ \E nrows \in 0..MaxDataRows,
          tab \in {NoneOpt, Some("FFFF0000")},
          flags \in [{"auto_width", "auto_filter", "merge", "validation", "link",
                      "chart", "image", "freeze"} -> BOOLEAN],
          tables \in {<<>>, <<TableAt(1)>>, <<[range |-> MergeRange(1, 0, 3, 0)]>>},
          nformats \in 0..2 :
          /\ gen_arrow = TextColumns(2, IF nrows = 0 THEN <<>> ELSE <<nrows>>)
          /\ gen_sheet = DictColumns(2, nrows)
          /\ gen_config =
                 [DefaultStyleConfig EXCEPT
                     !.tab_color = tab,
                     !.auto_width = flags["auto_width"],
                     !.auto_filter = flags["auto_filter"],
                     !.merge_cells = IF flags["merge"] THEN <<MergeA>> ELSE <<>>,
                     !.data_validations =
                         IF flags["validation"] THEN <<MergeA>> ELSE <<>>,
                     !.hyperlinks =
                         IF flags["link"]
                         THEN <<[row |-> 2, col |-> 0, url |-> "u", display |-> NoneOpt]>>
                         ELSE <<>>,
                     !.charts = IF flags["chart"] THEN Objects(1, 1) ELSE <<>>,
                     !.images = IF flags["image"] THEN Images(1, <<"png">>) ELSE <<>>,
                     !.tables = tables,
                     !.freeze_rows = IF flags["freeze"] THEN 1 ELSE 0,
                     !.conditional_formats =
                         [i \in 1..nformats |-> CondFormat("ColorScale", NoStyle, i)]]
    /\ gen_col_format_map = {}
    /\ gen_cell_style_map = {}
    /\ GenerationStart

SpecOrder == InitOrder /\ [][NextSheet]_vars

\* Worksheets that differ in where their rows go: header row written or
\* not, data_start_row, header_content, tables below the first row, and the
\* data rows in one batch or in several.
HeaderContentChoices == {<<1, 0, "t">>, <<1, 1, "u">>, <<2, 1, "v">>}

InitRows ==
    /\ \E sizes \in SeqsUpTo(0..MaxDataRows, MaxDataRows),
          header \in BOOLEAN,
          filter \in BOOLEAN,
          start \in 0..MaxStartRow,
          content \in SeqsUpTo(HeaderContentChoices, 2),
          starts \in SeqsUpTo({1, 3, 4}, 2) :
          /\ SumSeq(sizes) <= MaxDataRows
          /\ gen_arrow = TextColumns(2, sizes)
          /\ gen_sheet = DictColumns(2, SumSeq(sizes))
          /\ gen_config =
                 [DefaultStyleConfig EXCEPT
                     !.write_header_row = header,
                     !.auto_filter = filter,
                     !.data_start_row = start,
                     !.header_content = content,
                     !.tables = [t \in 1..Len(starts) |-> TableAt(starts[t])]]
    /\ gen_col_format_map = {}
    /\ gen_cell_style_map = {}
    /\ GenerationStart

SpecRows == InitRows /\ [][NextSheet]_vars

\* The values one cell may hold: every branch of the Arrow cell writer and
\* every CellValue of the dict writer, non-finite numbers included.
ArrowValues ==
    << Utf8("x"), Utf8(""), [data_type |-> "Utf8", null |-> TRUE, value |-> ""],
       [data_type |-> "Int64", null |-> FALSE, value |-> 5],
       [data_type |-> "Boolean", null |-> FALSE, value |-> TRUE],
       [data_type |-> "Date32", null |-> FALSE,
        value |-> [in_range |-> TRUE, date |-> ADate]],
       [data_type |-> "Date32", null |-> FALSE,
        value |-> [in_range |-> FALSE, date |-> ADate]],
       [data_type |-> "Timestamp", null |-> FALSE,
        value |-> [in_range |-> TRUE, date |-> ADate]],
       [data_type |-> "Other", null |-> FALSE, value |-> 0] >>
    \o [i \in 1..Len(Numbers) |->
           [data_type |-> "Float64", null |-> FALSE, value |-> Numbers[i]]]

DictValues ==
    << [kind |-> "Empty", value |-> 0], [kind |-> "String", value |-> "x"],
       [kind |-> "Bool", value |-> FALSE], [kind |-> "Date", value |-> ADate] >>
    \o [i \in 1..Len(Numbers) |-> [kind |-> "Number", value |-> Numbers[i]]]

\* Style ids the registry hands out to callers lie beyond the pre-seeded
\* cell formats.
ColumnStyleId == Len(build_default_xfs)

CellStyleId == Len(build_default_xfs) + 1

\* One data cell, at row 2 of column A, of every kind of content, with or
\* without a column format, a cell style, a hyperlink and a formula on it.
InitCells ==
    /\ \E a \in 1..Len(ArrowValues),
          with \in [{"column", "cell", "link", "formula"} -> BOOLEAN],
          label \in {NoneOpt, Some("l")},
          cached \in {NoneOpt, Some(Text("int", 7, 0))} :
          /\ ~with["link"] => label = NoneOpt
          /\ ~with["formula"] => cached = NoneOpt
          /\ gen_arrow = [schema |-> <<"h">>, batches |-> << << <<ArrowValues[a]>> >> >>]
          /\ gen_col_format_map =
                 IF with["column"] THEN {[key |-> 0, value |-> ColumnStyleId]} ELSE {}
          /\ gen_cell_style_map =
                 IF with["cell"] THEN {[key |-> <<2, 0>>, value |-> CellStyleId]} ELSE {}
          /\ gen_config =
                 [DefaultStyleConfig EXCEPT
                     !.hyperlinks =
                         IF with["link"]
                         THEN <<[row |-> 2, col |-> 0, url |-> "u", display |-> label]>>
                         ELSE <<>>,
                     !.formulas =
                         IF with["formula"]
                         THEN <<[row |-> 2, col |-> 0, formula |-> "f",
                                 cached_value |-> cached]>>
                         ELSE <<>>]
    /\ \E d \in 1..Len(DictValues) :
          gen_sheet = <<[header |-> "h", values |-> <<DictValues[d]>>]>>
    /\ GenerationStart

SpecCells == InitCells /\ [][NextSheet]_vars

\* Calls whose sheets carry named tables: the names differ in case only,
\* or not at all, or are different.
TableNamePool == {<<"T">>, <<"t">>, <<"A">>}

TableDisplayPool == {<<"t">>, <<"B">>}

NamedTable(s, k, name, display_name) ==
    [sheet |-> s, pos |-> k, name |-> name, display_name |-> display_name]

InitTables ==
    /\ num_threads = 1
    /\ target_before = "absent"
    /\ \E n \in 1..MaxTableSheets :
          /\ \E t \in [1..n -> 0..MaxNamedTables] :
                \E names \in [1..n -> [1..MaxNamedTables -> TableNamePool]],
                   displays \in [1..n -> [1..MaxNamedTables -> TableDisplayPool]] :
                   /\ \A s \in 1..n : \A k \in (t[s] + 1)..MaxNamedTables :
                          /\ names[s][k] = <<"T">>
                          /\ displays[s][k] = <<"t">>
                   /\ sheets = [s \in 1..n |->
                                   Sheet(s, GoodName, FALSE,
                                         [EmptyConfig EXCEPT !.tables =
                                             [k \in 1..t[s] |->
                                                 NamedTable(s, k, names[s][k],
                                                            displays[s][k])]])]
          /\ CallStart(n)
    /\ NoAtomicWrite
    /\ NoValidation
    /\ NoRegistration
    /\ NoLetters
    /\ NoSingleWrite
    /\ NoWorkbook
    /\ NoGeneration

SpecTables == InitTables /\ [][NextParts]_vars

\* A call of write_col_letter for every column index a sheet can have.
InitLetters ==
    /\ letter_col \in 0..(MAX_COLS - 1)
    /\ letter_buf = <<"", "", "", "">>
    /\ letter_len = 0
    /\ lpc = "call"
    /\ NoWrite
    /\ NoAtomicWrite
    /\ NoValidation
    /\ NoRegistration
    /\ NoGeneration
    /\ NoSingleWrite
    /\ NoWorkbook

NextLetters == WriteColLetter

SpecLetters == InitLetters /\ [][NextLetters]_vars

\* A workbook of up to MaxBookSheets sheets; the k-th name stands for the
\* text "Sheet{k}".
InitBook ==
    /\ \E n \in 0..MaxBookSheets : book_names = [k \in 1..n |-> <<"Sheet", k>>]
    /\ book_xml = <<>>
    /\ book_rels = <<>>
    /\ bpc = "call"
    /\ NoWrite
    /\ NoAtomicWrite
    /\ NoValidation
    /\ NoRegistration
    /\ NoGeneration
    /\ NoLetters
    /\ NoSingleWrite

NextBook == GenerateWorkbook

SpecBook == InitBook /\ [][NextBook]_vars

\* Table k of the sheet: two columns, two rows from start_row on.
RangedTable(k, start_row) ==
    [sheet |-> 1, pos |-> k, range |-> MergeRange(start_row, 0, start_row + 1, 1)]

ImageChoices == {<<>>, <<"png">>, <<"png", "jpg">>}

\* A column map whose second column is one value longer than the first.
RaggedColumns ==
    [c \in 1..2 |->
        [header |-> "h",
         values |-> [r \in 1..c |-> [kind |-> "String", value |-> "x"]]]]

\* One call of a single-sheet entry point.  A call of the Arrow entry
\* point comes with a call of write_multiple_sheets_arrow_with_configs that
\* is given the same batches, name and configuration as its only sheet.
InitEntry ==
    /\ spc = "call"
    /\ single_zipper = <<>>
    /\ single_error = NoneOpt
    /\ \/ /\ \E name \in {GoodName, BadName},
                columns \in {DictColumns(0, 0), DictColumns(2, 0), DictColumns(2, 1),
                             RaggedColumns} :
                single_call = [entry |-> "write_single_sheet",
                               sheet |-> [name |-> name, columns |-> columns]]
          /\ NoWrite
       \/ /\ \E name \in {GoodName, BadName},
                columns \in {DictColumns(0, 0), DictColumns(2, 1), RaggedColumns},
                charts \in 0..MaxCharts,
                exts \in ImageChoices :
                single_call = [entry |-> "write_single_sheet_with_config",
                               sheet |-> [name |-> name, columns |-> columns],
                               config |-> [DefaultStyleConfig EXCEPT
                                              !.charts = Objects(1, charts),
                                              !.images = Images(1, exts)]]
          /\ NoWrite
       \/ /\ \E name \in {GoodName, BadName},
                bad \in BOOLEAN,
                charts \in 0..MaxCharts,
                exts \in ImageChoices,
                starts \in SeqsUpTo({1, 2}, MaxEntryTables),
                links \in {<<>>, <<"u">>},
                fmts \in {<<>>, <<CondFormat("CellValue", StyleRed, 1)>>,
                          <<CondFormat("CellValue", StyleBadFormat, 1)>>} :
                LET config == [EmptyConfig EXCEPT
                                  !.charts = Objects(1, charts),
                                  !.images = Images(1, exts),
                                  !.tables = [k \in 1..Len(starts) |->
                                                 RangedTable(k, starts[k])],
                                  !.hyperlinks = links,
                                  !.conditional_formats = fmts]
                IN  /\ single_call = [entry |-> "write_single_sheet_arrow_with_config",
                                      batches |-> [id |-> 1, bad_data |-> bad],
                                      sheet_name |-> name,
                                      config |-> config]
                    /\ sheets = <<Sheet(1, name, bad, config)>>
          /\ num_threads = 1
          /\ target_before = "absent"
          /\ CallStart(1)
    /\ NoAtomicWrite
    /\ NoValidation
    /\ NoRegistration
    /\ NoGeneration
    /\ NoLetters
    /\ NoWorkbook

NextEntry ==
    \/ WriteSingleSheet
    \/ WriteSingleSheetWithConfig
    \/ WriteSingleSheetArrowWithConfig
    \/ ValidateNames
    \/ RegisterSheet
    \/ GenerateSeq
    \/ BeginAssembly
    \/ AssembleSheet

SpecEntry == InitEntry /\ [][NextEntry]_vars

\* ------------------------------------------------------------------------
\* Properties of the multi-sheet write
\* ------------------------------------------------------------------------

\* The assembly loop has run for every sheet.
Assembled == idx = NumSheets + 1

ThePart(path) == PartsAt(zipper, path)[1]

\* The relationship of a rels file that carries the given id.
RelById(rels, idkind, n) ==
    CHOOSE r \in Range(rels) : r.id = [kind |-> idkind, n |-> n]

\* The drawing rels file of sheet s, found through the sheet's rIdDraw1.
DrawingRelsOf(s) ==
    LET draw == RelById(ThePart(Path("sheet_rels", s, "rels")).content, "rIdDraw", 1).target
    IN  ThePart(Path("drawing_rels", draw.n, "rels")).content

DrawingXmlOf(s) ==
    LET draw == RelById(ThePart(Path("sheet_rels", s, "rels")).content, "rIdDraw", 1).target
    IN  ThePart(draw).content

\* C1: for every sheet s and chart position i, the drawing XML of s refers
\* to rIdChart{i} for chart i, and rIdChart{i} of the drawing rels file of s
\* targets the chart part that was written for chart i of sheet s.
C1_ChartRelsPaired ==
    Assembled =>
        \A s \in 1..NumSheets : \A i \in 1..Len(sheets[s].config.charts) :
            LET chart == sheets[s].config.charts[i]
                tgt == RelById(DrawingRelsOf(s), "rIdChart", i).target
            IN  /\ DrawingXmlOf(s)[i].of = chart
                /\ DrawingXmlOf(s)[i].rid = [kind |-> "rIdChart", n |-> i]
                /\ PartsAt(zipper, tgt) # <<>>
                /\ \A p \in Range(PartsAt(zipper, tgt)) : p.content.chart = chart

\* The charts / tables of the workbook in sheet order, then position.
AllCharts == Flatten([s \in 1..NumSheets |-> sheets[s].config.charts])

AllTables == Flatten([s \in 1..NumSheets |-> sheets[s].config.tables])

\* C2: after assembly the chart parts carry the ids 1..C and the table
\* parts the ids 1..T, each id once, none skipped, increasing with sheet
\* order and then with the position inside the sheet.
C2_GlobalIds ==
    Assembled =>
        LET charts == PartsOfKind(zipper, "chart")
            tables == PartsOfKind(zipper, "table")
        IN  /\ Len(charts) = Len(AllCharts)
            /\ \A j \in 1..Len(charts) :
                  charts[j].path.n = j /\ charts[j].content.chart = AllCharts[j]
            /\ Len(tables) = Len(AllTables)
            /\ \A j \in 1..Len(tables) :
                  /\ tables[j].path.n = j
                  /\ tables[j].content.id = j
                  /\ tables[j].content.table = AllTables[j]

\* C2 witness: the workbook of the example (charts 2, 0, 2 and one table on
\* sheet 2) has been assembled.
C2_Witness ==
    /\ Assembled
    /\ NumSheets = 3
    /\ Len(sheets[1].config.charts) = 2
    /\ Len(sheets[2].config.charts) = 0
    /\ Len(sheets[3].config.charts) = 2
    /\ Len(sheets[2].config.tables) = 1
    /\ Len(sheets[1].config.tables) = 0
    /\ [j \in 1..4 |-> PartsOfKind(zipper, "chart")[j].path.n] = <<1, 2, 3, 4>>

\* C3: no two images are added under the same media path, and every
\* rIdImage relationship of a sheet targets the part holding the bytes of
\* that sheet's image.
C3_MediaUnique ==
    Assembled =>
        LET media == PartsOfKind(zipper, "media")
        IN  /\ \A j, k \in 1..Len(media) : j # k => media[j].path # media[k].path
            /\ \A s \in 1..NumSheets : \A i \in 1..Len(sheets[s].config.images) :
                  LET tgt == RelById(DrawingRelsOf(s), "rIdImage", i).target
                  IN  \A p \in Range(PartsAt(zipper, tgt)) :
                         p.content = sheets[s].config.images[i].image_data

\* The number of rules before rule i of sheet s, in sheet order and then
\* rule order, that take a differential format.
RECURSIVE DxfRulesBefore(_, _)
DxfRulesBefore(s, i) ==
    IF i > 1
    THEN DxfRulesBefore(s, i - 1)
         + (IF NeedsDxf(sheets[s].config.conditional_formats[i - 1].rule) THEN 1 ELSE 0)
    ELSE IF s > 1
    THEN DxfRulesBefore(s - 1, Len(sheets[s - 1].config.conditional_formats) + 1)
    ELSE 0

\* C4: every CellValue / Top10 rule gets a differential-format id, assigned
\* in sheet order and then rule order and recorded under the rule's index;
\* the dxfId written for the rule is that id and the entry of styles.xml at
\* that index holds the rule's style.  ColorScale / DataBar rules get no id
\* and are written without dxfId.
C4_DxfIds ==
    Assembled =>
        \A s \in 1..NumSheets : \A i \in 1..Len(sheets[s].config.conditional_formats) :
            LET cf == sheets[s].config.conditional_formats[i]
                written == ThePart(Path("sheet", s, "xml")).content.conditionalFormatting[i]
                dxfs == ThePart(Path("styles", 0, "xml")).content.dxfs
            IN  IF NeedsDxf(cf.rule)
                THEN /\ sheet_dxf_mappings[s][i] = Some(DxfRulesBefore(s, i))
                     /\ written.dxfId = sheet_dxf_mappings[s][i]
                     /\ Unwrap(written.dxfId) + 1 \in DOMAIN dxfs
                     /\ dxfs[Unwrap(written.dxfId) + 1] = render_dxf(cf.style)
                ELSE /\ sheet_dxf_mappings[s][i] = NoneOpt
                     /\ written.dxfId = NoneOpt

\* C4 witness: sheet 1 carries a ColorScale rule and then a CellValue rule,
\* sheet 2 a Top10 rule of another style; the rule at index 0 of sheet 2 is
\* written with dxfId 1.
C4_Witness ==
    /\ Assembled
    /\ NumSheets = 2
    /\ Len(sheets[1].config.conditional_formats) = 2
    /\ Len(sheets[2].config.conditional_formats) = 1
    /\ sheets[1].config.conditional_formats[1].rule = "ColorScale"
    /\ sheets[1].config.conditional_formats[2] = CondFormat("CellValue", StyleRed, 2)
    /\ sheets[2].config.conditional_formats[1] = CondFormat("Top10", StyleBold, 1)
    /\ ThePart(Path("sheet", 2, "xml")).content.conditionalFormatting[1].dxfId = Some(1)

\* C5: a call that fails leaves the target path as it was before the call.
C5_TargetUntouchedOnFailure == pc = "err" => target = target_before

\* C6: at every moment of a call a reader finds at the target path either
\* what was there before the call or the complete new package.
C6_ReaderSeesOldOrNew == target \in {target_before, "new"}

\* C8: whatever the completion order of the tasks, sheet{i}.xml holds the
\* XML generated from the i-th declared sheet and is the part workbook.xml
\* binds to the i-th name; the worksheet parts are added in sheet order.
C8_SheetOrder ==
    Assembled =>
        LET ws == PartsOfKind(zipper, "sheet")
            wb == ThePart(Path("workbook", 0, "xml")).content
            wbrels == ThePart(Path("workbook_rels", 0, "rels")).content
        IN  /\ Len(ws) = NumSheets
            /\ Len(wb) = NumSheets
            /\ \A i \in 1..NumSheets :
                  /\ ws[i].path = Path("sheet", i, "xml")
                  /\ ws[i].content.batches = sheets[i].batches.id
                  /\ wb[i].name = sheets[i].name
                  /\ \A r \in Range(wbrels) : r.id = wb[i].rid => r.target = ws[i].path
                  /\ \E r \in Range(wbrels) : r.id = wb[i].rid

\* C8 witness: a parallel run whose tasks finished out of sheet order has
\* been assembled.
C8_Witness ==
    /\ Assembled
    /\ Parallel
    /\ NumSheets = 3
    /\ order = <<3, 1, 2>>

\* The tasks that failed, in the order they finished.
FailedInOrder == SelectSeq(order, LAMBDA i : sheets[i].batches.bad_data)

\* C9: when generation fails the call returns one error, that of the
\* first failure encountered; the sequential run starts no sheet after the
\* failing one; no part is assembled and the target is untouched.
C9_FirstErrorWins ==
    (pc = "err" /\ Unwrap(error).at = "generate") =>
        /\ FailedInOrder # <<>>
        /\ error = Some(ValidationError("generate", FailedInOrder[1]))
        /\ ~Parallel => (Len(FailedInOrder) = 1 /\ order[Len(order)] = FailedInOrder[1])
        /\ zipper = <<>>
        /\ xml_and_hyperlinks = <<>>
        /\ target = target_before

\* C9 witness: a parallel run in which two tasks failed, the higher sheet
\* first, has returned.
C9_Witness ==
    /\ pc = "err"
    /\ Parallel
    /\ Len(FailedInOrder) = 2
    /\ FailedInOrder[1] > FailedInOrder[2]
    /\ error = Some(ValidationError("generate", FailedInOrder[1]))

\* ------------------------------------------------------------------------
\* Properties of write_file_atomic
\* ------------------------------------------------------------------------

\* C7: once the temporary file has been created, a call that fails (in the
\* callback, in flush or fsync, or in the rename) ends with no file at the
\* temporary path.
C7_TempRemovedOnFailure ==
    (apc = "err" /\ temp_created) => temp_path = "absent"

\* ------------------------------------------------------------------------
\* Properties of validate_style_config
\* ------------------------------------------------------------------------

\* The checks of validate_merge_range that a merge range fails.
MergeProblems(merge, rows, cols) ==
    Cardinality({c \in 1..6 :
        \/ c = 1 /\ merge.start_row > merge.end_row
        \/ c = 2 /\ merge.start_col > merge.end_col
        \/ c = 3 /\ IsSome(validate_cell_coords(merge.start_row, merge.start_col, ""))
        \/ c = 4 /\ IsSome(validate_cell_coords(merge.end_row, merge.end_col, ""))
        \/ c = 5 /\ merge.end_row > rows
        \/ c = 6 /\ merge.end_col >= cols})

\* The conditional formats whose priority an earlier format already has.
DuplicatePriorities(formats) ==
    {i \in 1..Len(formats) : \E j \in 1..(i - 1) : formats[j].priority = formats[i].priority}

\* The violations of a configuration that holds nothing but merges, charts,
\* row heights and conditional formats with valid ranges: every failed check
\* of every merge range, every pair of overlapping merges, every bad chart,
\* every bad row height and every repeated priority.
IndependentViolations(cfg, rows, cols) ==
    SumSeq([i \in 1..Len(cfg.merge_cells) |-> MergeProblems(cfg.merge_cells[i], rows, cols)])
    + Cardinality(OverlappingPairs(cfg.merge_cells))
    + Cardinality({i \in 1..Len(cfg.charts) : IsSome(validate_chart(cfg.charts[i], rows, cols))})
    + (IF IsSome(cfg.row_heights)
       THEN Cardinality(BadRowHeights(Unwrap(cfg.row_heights))) ELSE 0)
    + Cardinality(DuplicatePriorities(cfg.conditional_formats))

\* C10: a configuration with k independent violations yields exactly k
\* error entries, also when several violations are of the same kind.
C10_OneErrorPerViolation ==
    vpc = "returned" =>
        Len(Unwrap(validation_result).errors)
            = IndependentViolations(style_config, data_rows, data_cols)

\* C11: to_error succeeds exactly when no error was recorded, whatever the
\* warnings; otherwise it is one Validation failure whose message holds
\* every recorded error, in recording order, with a newline between
\* neighbours.
C11_ToErrorAggregates ==
    vpc = "converted" =>
        LET res == Unwrap(validation_result)
            out == Unwrap(to_error_result)
            n == Len(res.errors)
        IN  /\ out.ok <=> (n = 0)
            /\ ~out.ok =>
                  /\ out.kind = "Validation"
                  /\ Len(out.message) = 2 * n - 1
                  /\ \A i \in 1..n : out.message[2 * i - 1] = res.errors[i]
                  /\ \A i \in 1..(n - 1) : out.message[2 * i] = "\n"

\* C11 witness: a formula on the cell of a hyperlink recorded a warning and
\* nothing else, and to_error succeeded.
C11_Witness ==
    /\ vpc = "converted"
    /\ Unwrap(validation_result).errors = <<>>
    /\ Unwrap(validation_result).warnings # <<>>
    /\ Unwrap(to_error_result).ok

\* ------------------------------------------------------------------------
\* Properties of the style registry
\* ------------------------------------------------------------------------

\* The registry as call k found it.
RegistryBefore(k) == IF k = 1 THEN NewRegistry ELSE registrations[k - 1].after

IsPrefix(a, b) == Len(a) <= Len(b) /\ \A i \in 1..Len(a) : a[i] = b[i]

Interned == {"font", "fill", "border", "cell_style"}

\* C12: registering a font, fill, border or cell style that is structurally
\* equal to one registered earlier returns the id returned the first time
\* and leaves every list of the registry as it was, whatever was registered
\* in between; no call moves or changes an entry that is already present,
\* the pre-seeded defaults included.
C12_InterningIdempotent ==
    \A k \in 1..Len(registrations) :
        LET c == registrations[k]
            before == RegistryBefore(k)
        IN  /\ IsPrefix(before.fonts, c.after.fonts)
            /\ IsPrefix(before.fills, c.after.fills)
            /\ IsPrefix(before.borders, c.after.borders)
            /\ IsPrefix(before.cell_xfs, c.after.cell_xfs)
            /\ IsPrefix(before.dxfs, c.after.dxfs)
            /\ IsPrefix(before.custom_num_fmts, c.after.custom_num_fmts)
            /\ \A j \in 1..(k - 1) :
                    ( /\ c.op \in Interned
                      /\ registrations[j].op = c.op
                      /\ registrations[j].arg = c.arg
                      /\ registrations[j].ok )
                    => /\ c.ok
                       /\ c.id = registrations[j].id
                       /\ c.after = before

\* C12 witness: a cell style with a custom number format is registered, a
\* new font is interned in between, and the cell style is registered again
\* and gets the first id, which lies beyond the default formats.
C12_Witness ==
    /\ Len(registrations) = 3
    /\ registrations[1].op = "cell_style"
    /\ registrations[1].arg = StyleDecimal
    /\ registrations[2].op = "font"
    /\ registrations[2].arg = FontItalic
    /\ registrations[3].op = "cell_style"
    /\ registrations[3].arg = StyleDecimal
    /\ registrations[3].id = Len(build_default_xfs)
    /\ Len(own_registry.fonts) = Len(DefaultFonts) + 1

\* A cell style with each absent component replaced by what
\* register_cell_style uses for it: font, fill and border 0 of the registry
\* and number format 0.
Resolved(style) ==
    [font |-> IF IsSome(style.font) THEN Unwrap(style.font) ELSE DefaultFonts[1],
     fill |-> IF IsSome(style.fill) THEN Unwrap(style.fill) ELSE DefaultFills[1],
     border |-> IF IsSome(style.border) THEN Unwrap(style.border)
                ELSE DefaultBorders[1],
     number_format |-> IF IsSome(style.number_format)
                       THEN Unwrap(style.number_format) ELSE Builtin("General"),
     alignment |-> style.alignment]

\* C13 as stated: two fonts, fills, borders or cell styles that are not
\* structurally equal never receive the same id from the same registry.
C13_DistinctIds ==
    \A j, k \in 1..Len(registrations) :
        ( /\ registrations[j].op \in Interned
          /\ registrations[j].op = registrations[k].op
          /\ registrations[j].ok /\ registrations[k].ok
          /\ registrations[j].arg # registrations[k].arg )
        => registrations[j].id # registrations[k].id

\* C13 amended: two fonts, fills or borders that are not structurally equal
\* never receive the same id, and two cell styles never receive the same id
\* unless they are equal once every absent font, fill and border is read as
\* entry 0 of the registry and an absent number format as General.
C13_DistinctResolvedIds ==
    \A j, k \in 1..Len(registrations) :
        ( /\ registrations[j].op \in Interned
          /\ registrations[j].op = registrations[k].op
          /\ registrations[j].ok /\ registrations[k].ok
          /\ IF registrations[j].op = "cell_style"
             THEN Resolved(registrations[j].arg) # Resolved(registrations[k].arg)
             ELSE registrations[j].arg # registrations[k].arg )
        => registrations[j].id # registrations[k].id

\* C13 witness: the style without components and the style that spells out
\* the default font share format 0, and a style with a fill gets another id.
C13_Witness ==
    /\ Len(registrations) = 3
    /\ registrations[1].op = "cell_style" /\ registrations[1].arg = NoStyle
    /\ registrations[2].op = "cell_style" /\ registrations[2].arg = StyleDefaultFont
    /\ registrations[3].op = "cell_style" /\ registrations[3].arg = StyleRed
    /\ registrations[1].id = registrations[2].id
    /\ registrations[3].id # registrations[1].id

\* The CellValue / Top10 rules of a write, as <<sheet, rule index>>.
DxfRules ==
    {p \in (1..NumSheets) \X (1..MaxRules) :
        /\ p[2] <= Len(sheets[p[1]].config.conditional_formats)
        /\ NeedsDxf(sheets[p[1]].config.conditional_formats[p[2]].rule)}

\* C14: two structurally equal conditional-format styles, on the same sheet
\* or on different sheets of one write, get the same differential-format id,
\* and styles.xml holds one dxf entry per distinct style.
C14_DxfInterned ==
    Assembled =>
        /\ \A p, q \in DxfRules :
               sheets[p[1]].config.conditional_formats[p[2]].style
                   = sheets[q[1]].config.conditional_formats[q[2]].style
               => sheet_dxf_mappings[p[1]][p[2]] = sheet_dxf_mappings[q[1]][q[2]]
        /\ Len(ThePart(Path("styles", 0, "xml")).content.dxfs)
               = Cardinality({sheets[p[1]].config.conditional_formats[p[2]].style :
                                 p \in DxfRules})

\* The codes of the custom number formats that calls 1..k had accepted, in
\* the order in which each was accepted first.
RECURSIVE AcceptedCodes(_)
AcceptedCodes(k) ==
    IF k = 0 THEN <<>>
    ELSE LET c == registrations[k]
             fmt == IF c.op = "num_fmt" THEN Some(c.arg)
                    ELSE IF c.op = "cell_style" THEN c.arg.number_format
                    ELSE NoneOpt
             sofar == AcceptedCodes(k - 1)
         IN  IF /\ c.ok
                /\ IsSome(fmt)
                /\ Unwrap(fmt).kind = "Custom"
                /\ Unwrap(fmt).code \notin Range(sofar)
             THEN Append(sofar, Unwrap(fmt).code)
             ELSE sofar

\* C15: the k-th distinct accepted custom code holds numFmtId 177 + k, in
\* the order of first registration and without gaps; registering a code
\* again returns its id and consumes none; no custom id is the id of a
\* built-in format.
C15_CustomIds ==
    LET t == own_registry.custom_num_fmts
    IN  /\ Len(t) = Len(AcceptedCodes(Len(registrations)))
        /\ \A k \in 1..Len(t) :
               /\ t[k].code = AcceptedCodes(Len(registrations))[k]
               /\ t[k].id = 177 + k
               /\ \A b \in BuiltinFormats : t[k].id # fmt_info(Builtin(b)).id
        /\ own_registry.next_custom_fmt_id = 178 + Len(t)
        /\ \A n \in 1..Len(registrations) :
               LET c == registrations[n]
               IN  (c.op = "num_fmt" /\ c.ok /\ c.arg.kind = "Custom")
                   => /\ \E k \in 1..Len(t) : t[k].code = c.arg.code /\ t[k].id = c.id
                      /\ c.arg.code \in Range(AcceptedCodes(n - 1))
                             => c.after = RegistryBefore(n)

\* C15 witness: two codes are accepted, the first is registered again and
\* returns 178, and the counter stands at 180.
C15_Witness ==
    /\ Len(registrations) = 3
    /\ registrations[1].arg = Custom(CodeHash) /\ registrations[1].id = 178
    /\ registrations[2].arg = Custom(CodeDecimal) /\ registrations[2].id = 179
    /\ registrations[3].arg = Custom(CodeHash) /\ registrations[3].id = 178
    /\ own_registry.next_custom_fmt_id = 180

\* C16: a Custom number format is rejected exactly when its code is empty
\* or made of alphabetic characters only; a rejected registration leaves
\* the custom-format table and the counter unchanged, and every other code
\* is accepted and interned.
C16_RejectedExactly ==
    \A n \in 1..Len(registrations) :
        LET c == registrations[n]
            before == RegistryBefore(n)
        IN  (c.op = "num_fmt" /\ c.arg.kind = "Custom") =>
                /\ ~c.ok <=> \/ c.arg.code = <<>>
                             \/ \A i \in 1..Len(c.arg.code) : c.arg.code[i] \in AlphaChars
                /\ ~c.ok =>
                      /\ c.after.custom_num_fmts = before.custom_num_fmts
                      /\ c.after.next_custom_fmt_id = before.next_custom_fmt_id
                /\ c.ok =>
                      \E k \in 1..Len(c.after.custom_num_fmts) :
                          /\ c.after.custom_num_fmts[k].code = c.arg.code
                          /\ c.after.custom_num_fmts[k].id = c.id

\* C27: the cell format rendered at position k of cellXfs, k being the id
\* register_cell_style returned for a style, names the font, the fill, the
\* border and the number format of that style and carries its alignment.
C27_RenderedCellFormat ==
    \A k \in 1..Len(registrations) :
        registrations[k].op = "cell_style" /\ registrations[k].ok =>
            LET styles == generate_styles_xml_enhanced(own_registry)
                style == Resolved(registrations[k].arg)
                pos == registrations[k].id + 1
            IN  /\ pos \in 1..Len(styles.cellXfs)
                /\ styles.fonts[styles.cellXfs[pos].fontId + 1] = style.font
                /\ styles.fills[styles.cellXfs[pos].fillId + 1] = style.fill
                /\ styles.borders[styles.cellXfs[pos].borderId + 1] = style.border
                /\ IF style.number_format.kind = "Custom"
                   THEN \E e \in 1..Len(styles.numFmts) :
                            /\ styles.numFmts[e].id = styles.cellXfs[pos].numFmtId
                            /\ styles.numFmts[e].code = style.number_format.code
                   ELSE styles.cellXfs[pos].numFmtId = fmt_info(style.number_format).id
                /\ styles.cellXfs[pos].alignment = style.alignment

\* ------------------------------------------------------------------------
\* Properties of the worksheet document
\* ------------------------------------------------------------------------
\* Properties of table names
\* ------------------------------------------------------------------------

\* The tables of the workbook as (sheet, position) pairs.
WorkbookTables ==
    {<<s, k>> : s \in 1..NumSheets, k \in 1..MaxNamedTables}
        \cap {p \in (1..NumSheets) \X (1..MaxNamedTables) :
                  p[2] <= Len(sheets[p[1]].config.tables)}

TableOf(p) == sheets[p[1]].config.tables[p[2]]

\* Two tables of the workbook have the same name, or the same display
\* name, when case is ignored.
TableNamesCollide ==
    \E p, q \in WorkbookTables :
        /\ p # q
        /\ \/ to_lowercase(TableOf(p).name) = to_lowercase(TableOf(q).name)
           \/ to_lowercase(TableOf(p).display_name)
                  = to_lowercase(TableOf(q).display_name)

\* C23: a workbook in which two tables, on one sheet or on two, have equal
\* names or display names when case is ignored is rejected with a
\* validation error and no package is assembled for it.
C23_TableNamesUnique ==
    TableNamesCollide => /\ ~Assembled
                         /\ PartsOfKind(zipper, "table") = <<>>

\* ------------------------------------------------------------------------

Generated == gpc \in {"arrow", "dict"} /\ gen_result.ok

ElementOrder ==
    <<"sheetPr", "dimension", "sheetViews", "sheetFormatPr", "cols", "sheetData",
      "autoFilter", "mergeCells", "conditionalFormatting", "dataValidations",
      "hyperlinks", "drawing", "tableParts">>

Rank(name) == CHOOSE i \in 1..Len(ElementOrder) : ElementOrder[i] = name

\* C17: in every worksheet document, of the Arrow writer and of the dict
\* writer, the top-level elements are of the thirteen kinds and no element
\* of a later kind is written before an element of an earlier kind.
C17_ElementOrder ==
    Generated =>
        /\ Range(gen_result.elements) \subseteq Range(ElementOrder)
        /\ \A i, j \in 1..Len(gen_result.elements) :
               i < j => Rank(gen_result.elements[i]) <= Rank(gen_result.elements[j])

\* C17 witness: a document of the Arrow writer that carries every one of
\* the thirteen kinds, conditionalFormatting twice.
C17_Witness ==
    /\ gpc = "arrow"
    /\ gen_result.ok
    /\ Range(gen_result.elements) = Range(ElementOrder)
    /\ Len(gen_result.elements) = Len(ElementOrder) + 1

\* C18: the first row number written is at least 1, row numbers strictly
\* increase through sheetData, and every cell reference is the letters of a
\* column of the sheet followed by the number of its row element.
C18_RowAndCellRefs ==
    Generated =>
        LET rows == gen_result.rows
            num_cols == IF gpc = "arrow" THEN Len(gen_arrow.schema) ELSE Len(gen_sheet)
        IN  /\ rows # <<>> => rows[1].r >= 1
            /\ \A i \in 1..(Len(rows) - 1) : rows[i].r < rows[i + 1].r
            /\ \A i \in 1..Len(rows) : \A k \in 1..Len(rows[i].cells) :
                   /\ rows[i].cells[k].r.row = rows[i].r
                   /\ \E c \in 1..num_cols :
                          rows[i].cells[k].r.letters = <<Letters[c]>>

\* C19: the style id of every data cell is the cell style registered for
\* its (row, column) when there is one, otherwise the style of the column's
\* number format when there is one, otherwise no style of the caller (no s
\* attribute, or a pre-seeded format), whatever the cell holds.
C19_StylePrecedence ==
    (gpc = "arrow" /\ gen_result.ok) =>
        \A i \in 1..Len(gen_result.rows) : \A k \in 1..Len(gen_result.rows[i].cells) :
            LET row == gen_result.rows[i]
                cell == row.cells[k]
                col == (CHOOSE c \in 1..Len(Letters) : Letters[c] = cell.r.letters[1]) - 1
                custom == MapGet(gen_cell_style_map, <<row.r, col>>)
                column == MapGet(gen_col_format_map, col)
            IN  row.r > DataStart(gen_config) =>
                    IF IsSome(custom) THEN cell.s = custom
                    ELSE IF IsSome(column) THEN cell.s = column
                    ELSE \/ cell.s = NoneOpt
                         \/ Unwrap(cell.s) < Len(build_default_xfs)

\* C20: no <v> element of a worksheet, of the Arrow writer or of the dict
\* writer, holds the text of a NaN or of an infinity.
C20_NoNonFiniteValue ==
    Generated =>
        \A i \in 1..Len(gen_result.rows) : \A k \in 1..Len(gen_result.rows[i].cells) :
            LET cell == gen_result.rows[i].cells[k]
            IN  IsSome(cell.v) => Unwrap(cell.v).kind \notin {"NaN", "inf", "-inf"}

\* The number of data rows and of columns handed to the generator.
GenDataRows ==
    IF gpc = "dict" THEN (IF gen_sheet = <<>> THEN 0 ELSE Len(gen_sheet[1].values))
    ELSE Len(Flatten(gen_arrow.batches))

GenCols == IF gpc = "dict" THEN Len(gen_sheet) ELSE Len(gen_arrow.schema)

\* The highest row number among the rows of sheetData.
HighestRow ==
    CHOOSE r \in {gen_result.rows[i].r : i \in 1..Len(gen_result.rows)} :
        \A i \in 1..Len(gen_result.rows) : gen_result.rows[i].r <= r

\* The row that holds the column names: the dict writer always writes it at
\* row 1, the Arrow writer at data_start when it is not suppressed.
ColumnNamesRow ==
    IF gpc = "dict" THEN Some(1)
    ELSE IF gen_config.write_header_row THEN Some(DataStart(gen_config))
    ELSE NoneOpt

AutoFilters == SelectSeq(gen_result.elements, LAMBDA e : e = "autoFilter")

\* C22: with auto_filter set and at least one data row the worksheet has
\* exactly one autoFilter, which runs from the first cell of the header row
\* to the last column of the last data row written; without data rows
\* there is no autoFilter.
C22_AutoFilterRange ==
    Generated =>
        /\ GenDataRows = 0 => AutoFilters = <<>> /\ gen_result.autoFilter = NoneOpt
        /\ gen_config.auto_filter /\ GenDataRows > 0 =>
               /\ Len(AutoFilters) = 1
               /\ IsSome(gen_result.autoFilter)
               /\ IsSome(ColumnNamesRow) =>
                      Unwrap(gen_result.autoFilter).first
                          = write_cell_ref(0, Unwrap(ColumnNamesRow))
               /\ Unwrap(gen_result.autoFilter).last
                      = Some(write_cell_ref(GenCols - 1, HighestRow))

\* The last cell a ref attribute names.
LastCell(ref) == IF IsSome(ref.last) THEN Unwrap(ref.last) ELSE ref.first

\* C24: the dimension element ends at the highest row written to sheetData
\* and, when there is data, at the last data column, whatever the header
\* row, data_start_row and tables are.
C24_DimensionIsUsedRange ==
    Generated /\ gen_result.rows # <<>> =>
        /\ LastCell(gen_result.dimension).row = HighestRow
        /\ GenDataRows > 0 =>
               LastCell(gen_result.dimension).letters = write_col_letter(GenCols - 1)

\* The first row a data row is written to when no table header is
\* inserted, and the tables that start on a row which a data row would
\* otherwise take.
FirstDataRow ==
    IF gen_config.write_header_row THEN DataStart(gen_config) + 1
    ELSE DataStart(gen_config)

TablesInsideData ==
    {t \in 1..Len(gen_config.tables) :
        /\ gen_config.tables[t].range.start_row > DataStart(gen_config)
        /\ gen_config.tables[t].range.start_row >= FirstDataRow
        /\ gen_config.tables[t].range.start_row < FirstDataRow + GenDataRows}

\* The row is the header row of the table: one inline string per column of
\* the table, holding the name of the column.
IsTableHeaderRow(row, range) ==
    /\ row.r = range.start_row
    /\ Len(row.cells) = range.end_col - range.start_col + 1
    /\ \A c \in 1..Len(row.cells) :
           /\ row.cells[c].r = write_cell_ref(range.start_col + c - 1, range.start_row)
           /\ row.cells[c].is = Some(gen_arrow.schema[range.start_col + c])

\* The rows written after the row of the column names.
BodyRows ==
    SelectSeq(gen_result.rows, LAMBDA row : row.r >= FirstDataRow)

\* C25: the Arrow writer writes, for every table that starts below the
\* header row on a row a data row would take, exactly one row with the
\* names of the table's columns at the table's start row, and the data rows
\* follow each other without a gap around the inserted rows, also when
\* there are several tables and when they start on consecutive rows.
C25_TableHeaderRows ==
    gpc = "arrow" /\ gen_result.ok =>
        /\ \A t \in TablesInsideData :
               Cardinality({i \in 1..Len(gen_result.rows) :
                               IsTableHeaderRow(gen_result.rows[i],
                                                gen_config.tables[t].range)}) = 1
        /\ \A i \in 1..Len(BodyRows) : BodyRows[i].r = FirstDataRow + i - 1
        /\ Len(BodyRows)
              = GenDataRows
                + Cardinality({gen_config.tables[t].range.start_row :
                                  t \in TablesInsideData})

\* The one data cell of the sheet: its value, the elements written for it,
\* and the formula and the hyperlink registered for it.
TheValue == gen_arrow.batches[1][1][1]

TheCells == gen_result.rows[Len(gen_result.rows)].cells

RelsWithId(rid) == SelectSeq(book_rels, LAMBDA r : r.id = rid)

\* C28: in xl/_rels/workbook.xml.rels the relationship ids are pairwise
\* distinct for every number of sheets, so the id of the styles relationship
\* is not the id of a worksheet relationship, and the r:id of the i-th
\* <sheet> of workbook.xml resolves to worksheets/sheet{i}.xml only.
C28_WorkbookRelIdsDistinct ==
    bpc = "done" =>
        /\ \A i, j \in 1..Len(book_rels) :
                book_rels[i].id = book_rels[j].id => i = j
        /\ \A i \in 1..Len(book_xml) :
                RelsWithId(book_xml[i].rid) = <<Rel("rId", i, Path("sheet", i, "xml"))>>

\* ------------------------------------------------------------------------
\* Properties of the package parts of every entry point
\* ------------------------------------------------------------------------

\* The single-sheet call has added every part: it returned Ok, or the error
\* of write_zip_to_file.
Packaged == spc = "done" /\ single_error \in ZipFailures

\* The multi-sheet call has added every part.
MultiPackaged == pc # "none" /\ Assembled

\* The Override part names of [Content_Types].xml of an archive.
OverridesOf(zip) == PartsAt(zip, Path("content_types", 0, "xml"))[1].content.overrides

DeclaredMatchesWritten(zip) ==
    \A kind \in {"table", "chart", "drawing"} :
        /\ \A i \in 1..Len(zip) :
              zip[i].path.kind = kind =>
                  Len(SelectSeq(OverridesOf(zip), LAMBDA o : o = zip[i].path)) = 1
        /\ \A i \in 1..Len(OverridesOf(zip)) :
              OverridesOf(zip)[i].kind = kind => PartsAt(zip, OverridesOf(zip)[i]) # <<>>

\* C29: for every entry point and every combination of tables, charts and
\* images, the table, chart and drawing parts declared in
\* [Content_Types].xml are the ones added to the package: each part written
\* has exactly one Override with its path and number, and no Override names
\* a part that is not written.
C29_ContentTypesMatchParts ==
    /\ MultiPackaged => DeclaredMatchesWritten(zipper)
    /\ Packaged => DeclaredMatchesWritten(single_zipper)

\* C30: write_single_sheet_arrow_with_config and
\* write_multiple_sheets_arrow_with_configs, given the same batches, name
\* and configuration as the only sheet, produce the same package parts with
\* the same contents: the same table ranges, the same table, chart and
\* drawing ids and the same relationship targets.
C30_SingleEqualsMultiOfOne ==
    (/\ Packaged
     /\ single_call.entry = "write_single_sheet_arrow_with_config"
     /\ MultiPackaged)
        => Range(single_zipper) = Range(zipper)

\* ------------------------------------------------------------------------
\* Properties of write_col_letter
\* ------------------------------------------------------------------------

LetterValue(c) == CHOOSE i \in 1..26 : Letters[i] = c

\* The column a letter string names: bijective base 26, A = 0.
RECURSIVE DecodeColumn(_)
DecodeColumn(letters) ==
    IF Len(letters) = 1 THEN LetterValue(letters[1]) - 1
    ELSE (DecodeColumn(SubSeq(letters, 1, Len(letters) - 1)) + 1) * 26
         + LetterValue(letters[Len(letters)]) - 1

WrittenLetters == SubSeq(letter_buf, 1, letter_len)

\* The letter strings of all the columns of a sheet.
AllColumnLetters == {write_col_letter(i) : i \in 0..(MAX_COLS - 1)}

\* C21: for every column index 0..16383 write_col_letter returns 1 to 3
\* letters inside the 4-byte buffer, decoding them gives the index back,
\* no two indices get the same letters, and the indices 0, 25, 26 and 701
\* are written as A, Z, AA and ZZ.
C21_ColLetterBijective ==
    lpc = "done" =>
        /\ letter_len \in 1..3
        /\ \A i \in 1..4 : (i <= letter_len) = (letter_buf[i] # "")
        /\ \A i \in 1..letter_len : \E k \in 1..26 : letter_buf[i] = Letters[k]
        /\ DecodeColumn(WrittenLetters) = letter_col
        /\ Cardinality(AllColumnLetters) = MAX_COLS
        /\ letter_col = 0 => WrittenLetters = <<"A">>
        /\ letter_col = 25 => WrittenLetters = <<"Z">>
        /\ letter_col = 26 => WrittenLetters = <<"A", "A">>
        /\ letter_col = 701 => WrittenLetters = <<"Z", "Z">>

\* The last column of the sheet has been written, with three letters.
C21_Witness ==
    /\ lpc = "done"
    /\ letter_col = MAX_COLS - 1
    /\ WrittenLetters = <<"X", "F", "D">>

====
